---- MODULE Spec2Model ----
(***************************************************************************)
(* The `reach` command of the model checker: the command handler, the      *)
(* BMC reachability core with its forward and backward strategy threads,   *)
(* the SAT engines they own, the shared status, the engine manager's       *)
(* interruption and the witness manager.                                   *)
(*                                                                         *)
(* Time frames.  The forward strategy names its frames 0, 1, 2, ...  The   *)
(* backward strategy names them UINT_MAX, UINT_MAX-1, ...; here the frame  *)
(* UINT_MAX - j is written as the integer -j (an offset from UINT_MAX), so *)
(* that in both engines TRANS asserted at time t relates frame t to frame  *)
(* t+1.                                                                    *)
(***************************************************************************)
EXTENDS Integers, Sequences, FiniteSets, TLC

\* ------------------------------------------------------------------ bounds

\* Largest number of states of a model of the generated family.
MaxStates == 2

\* Cap on the unrolling depth k of a strategy.
MaxDepth == 12

\* Largest number of time frames of a witness of the witness store.
MaxFrames == 2

\* Largest number of calls of the compiler's process in a run.
MaxCalls == 3

\* Number of digits (DDs) of the algebraic variables of the compiled model.
Width == 2

\* ------------------------------------------------------- finite-state models

Range(n) == 0 .. (n - 1)

\* The transition relation that moves by one of the strides in D, either
\* around a ring (wrap) or along a chain.
Strides(n, D, wrap) ==
    { p \in Range(n) \X Range(n) :
        \E d \in D : IF wrap THEN p[2] = (p[1] + d) % n ELSE p[2] = p[1] + d }

\* A loaded model with a target: modules is the number of modules of the
\* model, has_target whether the command was given a target.
FSM(n, init, trans, invar, target, negc, globc) ==
    [ n |-> n, init |-> init, trans |-> trans, invar |-> invar,
      target |-> target, negc |-> negc, globc |-> globc,
      modules |-> 1, has_target |-> TRUE ]

\* The generated family: n states, strides 0..2, ring or chain, INIT empty,
\* {0} or {0,1}, a target of at most one state, INVAR excluding at most one
\* state, no additional constraints.
FamilyOf(n) ==
    { FSM(n, init \cap Range(n), Strides(n, D, wrap), Range(n) \ bad, target,
          Range(n), Range(n)) :
        D \in SUBSET (0 .. 2), wrap \in BOOLEAN,
        init \in { {}, {0}, {0, 1} },
        target \in { {g} : g \in Range(n) } \cup { {} },
        bad \in { {b} : b \in Range(n) } \cup { {} } }

FamilyModels == UNION { FamilyOf(n) : n \in 1 .. MaxStates }

\* The models of the end-to-end scenarios.
\* 1: boolean x, INIT !x, TRANS x' = !x, target x.
Scenario1 == FSM(2, {0}, {<<0, 1>>, <<1, 0>>}, {0, 1}, {1}, {0, 1}, {0, 1})
\* 2: INVAR !x, target x.
Scenario2 == FSM(2, {0, 1}, Range(2) \X Range(2), {0}, {1}, {0, 1}, {0, 1})
\* 5: 3-bit counter, INIT c = 0, TRANS c' = c + 2, target c = 3.
Scenario5 == FSM(8, {0}, Strides(8, {2}, TRUE), Range(8), {3}, Range(8), Range(8))
\* Guided reachability: a backward constraint on the final frame, a global
\* constraint on every frame.
Guided ==
    { FSM(4, {0}, Strides(4, {1}, TRUE), Range(4), {2, 3}, negc, globc) :
        negc \in { Range(4), {3} }, globc \in { Range(4), {0, 1, 2} } }

\* The command given no target, and the command with no model loaded.
Unready ==
    { [ Scenario1 EXCEPT !.has_target = FALSE ],
      [ Scenario1 EXCEPT !.modules = 0 ] }

Models == FamilyModels \cup
          { Scenario1, Scenario2, Scenario5 } \cup Guided \cup Unready

\* ------------------------------------------------------------------ statuses

REACHABILITY_UNKNOWN == "UNKNOWN"
REACHABILITY_REACHABLE == "REACHABLE"
REACHABILITY_UNREACHABLE == "UNREACHABLE"
REACHABILITY_ERROR == "ERROR"

STATUS_SAT == "SAT"
STATUS_UNSAT == "UNSAT"
STATUS_UNKNOWN == "SOLVER_UNKNOWN"
NoResult == "none"

Strategies == { "forward", "backward" }

VARIABLES
    fsm,        \* the loaded model and the compiled target and constraints
    cmdpc,      \* the reach command: "idle", "running", "returned"
    retv,       \* the Variant the command returned
    out,        \* what the command printed
    active,     \* the strategy threads the run launched
    f_status,   \* Reachability::f_status, the shared status
    f_witness,  \* Reachability's witness, NoWitness until set_witness
    pc,         \* position of each strategy thread
    k,          \* unrolling depth of each strategy
    eng,        \* the SAT engine of each strategy
    res,        \* the last answer of each strategy's solve()
    asg,        \* the satisfying assignment of the last SAT witness check
    wm,         \* the witness manager
    elapsed,    \* whole seconds since sighandler's `last`, saturating at 1
    hist,       \* history of each strategy: calls made, for the properties
    f_frames,   \* Witness::f_frames, the time frames of a witness
    tf_res,     \* the TimeFrame the last new_frame() returned a reference to
    tf_ret,     \* the last TimeFrame operation and what it returned
    compiler,   \* the compiler: its stacks, side tables, cache and registry
    call,       \* the last call of process and how it ended
    encoding,   \* the encoding constructed last
    expr_ret,   \* the last call of the encoding's expr and what it returned
    evaluator   \* the evaluator: its stacks and the witness values it read

\* The variables of the reach command, and those of the witness store.
reachVars == << fsm, cmdpc, retv, out, active, f_status, f_witness, pc, k, eng,
                res, asg, wm, elapsed, hist >>
storeVars == << f_frames, tf_res, tf_ret >>
compVars == << compiler, call >>
encVars == << encoding, expr_ret >>
evalVars == << evaluator >>
restVars == << storeVars, compVars, encVars, evalVars >>

vars == << reachVars, storeVars, compVars, encVars, evalVars >>

\* --------------------------------------------------------------- SAT engine

\* A constraint on the frames t and u (u = t for a constraint on one frame).
Cn(kind, t, u) == [ kind |-> kind, t |-> t, u |-> u ]

EmptyAsg == [ x \in {} |-> 0 ]

\* An engine: the permanent constraints, the groups in issue order, the
\* interruption flag, and the log of the assertions issued, in order.
NoEngine == [ made |-> FALSE, cs |-> {}, groups |-> << >>, intr |-> FALSE, log |-> << >> ]
NewEngine == [ NoEngine EXCEPT !.made = TRUE ]

\* assert_formula and the assert_fsm_* family: a permanent constraint, or one
\* gated by a group.
Push(e, c) == [ e EXCEPT !.cs = @ \cup { c }, !.log = Append(@, c) ]
assert_formula(e, kind, t) == Push(e, Cn(kind, t, t))
assert_fsm_invar(e, t) == assert_formula(e, "invar", t)
assert_fsm_trans(e, t) == Push(e, Cn("trans", t, t + 1))
assert_fsm_uniqueness(e, tj, tk) == Push(e, Cn("uniq", tj, tk))
\* new_group() followed by an assertion in that group.
assert_in_new_group(e, kind, t) ==
    [ e EXCEPT !.groups = Append(@, [ c |-> Cn(kind, t, t), on |-> TRUE ]),
               !.log = Append(@, Cn(kind, t, t)) ]
\* invert_last_group(): the clauses of the last group are no longer enforced.
invert_last_group(e) ==
    [ e EXCEPT !.groups[Len(e.groups)].on = ~ @ ]

\* The constraints a solve enforces.
InForce(e) ==
    e.cs \cup { e.groups[i].c : i \in { j \in 1 .. Len(e.groups) : e.groups[j].on } }

Times(cs) == { c.t : c \in cs } \cup { c.u : c \in cs }
MinTime(cs) == CHOOSE t \in Times(cs) : \A u \in Times(cs) : t <= u
MaxTime(cs) == CHOOSE t \in Times(cs) : \A u \in Times(cs) : u <= t
Later(c) == IF c.t < c.u THEN c.u ELSE c.t

\* Whether the assignment a (frame -> state) satisfies the constraint c.
Holds(m, c, a) ==
    CASE c.kind = "init"   -> a[c.t] \in m.init
      [] c.kind = "invar"  -> a[c.t] \in m.invar
      [] c.kind = "target" -> a[c.t] \in m.target
      [] c.kind = "negc"   -> a[c.t] \in m.negc
      [] c.kind = "globc"  -> a[c.t] \in m.globc
      [] c.kind = "trans"  -> << a[c.t], a[c.u] >> \in m.trans
      [] c.kind = "uniq"   -> a[c.t] # a[c.u]

\* The satisfying assignments of cs over the frames t..hi that extend a.
RECURSIVE Extend(_, _, _, _, _)
Extend(m, cs, a, t, hi) ==
    IF t > hi THEN { a }
    ELSE UNION { Extend(m, cs, b, t + 1, hi) :
                 b \in { c \in { a @@ (t :> s) : s \in Range(m.n) } :
                         \A x \in cs : Later(x) = t => Holds(m, x, c) } }

SatModels(m, e) ==
    LET cs == InForce(e)
    IN  IF cs = {} THEN { EmptyAsg }
        ELSE Extend(m, cs, EmptyAsg, MinTime(cs), MaxTime(cs))

\* Engine::solve(): UNKNOWN when the engine was interrupted, else the
\* definitive answer.
solve(m, e) ==
    IF e.intr THEN STATUS_UNKNOWN
    ELSE IF SatModels(m, e) # {} THEN STATUS_SAT ELSE STATUS_UNSAT


\* ------------------------------------------------- shared status, interruption

\* Mutant: every caller is told it won.
sync_set_status_AlwaysWon(cur, s) ==
    [ status |-> IF cur = REACHABILITY_UNKNOWN THEN s ELSE cur, ret |-> TRUE ]

\* Reachability::sync_set_status(s), under the strategy mutex: sets the
\* status only if it is still UNKNOWN and tells whether the caller won.
sync_set_status(cur, s) ==
    [ status |-> IF cur = REACHABILITY_UNKNOWN THEN s ELSE cur,
      ret    |-> cur = REACHABILITY_UNKNOWN ]

\* Reachability::sync_status(), under the same mutex.
sync_status == f_status

\* EngineMgr::interrupt(): every engine in existence is told to abort.
interrupt(engines) ==
    [ t \in DOMAIN engines |->
        IF engines[t].made THEN [ engines[t] EXCEPT !.intr = TRUE ] ELSE engines[t] ]

\* ---------------------------------------------------------------- witnesses

NoWitness == [ id |-> << >>, frames |-> << >> ]

\* ReachabilityCounterExample(target, model, engine, k, reversed): frame i of
\* the witness, i in 0..k, holds the value the engine's assignment gives at
\* time i, or at time UINT_MAX - k + i when reversed.
ReachabilityCounterExample(a, depth, reversed) ==
    [ i \in 1 .. (depth + 1) |->
        IF reversed THEN a[(i - 1) - depth] ELSE a[i - 1] ]

\* WitnessMgr::autoincrement(): the next value of the auto witness counter.
autoincrement(w) == w.auto_index + 1

reach_trace_prfx == "reach_"

\* The witness a winning strategy builds, registered, made current and
\* attached (wm.record, wm.set_current, set_witness).
Registered(w, wit) ==
    [ w EXCEPT !.auto_index = autoincrement(w),
               !.registry = @ \cup { wit },
               !.current = wit.id ]

\* ------------------------------------------------------------------ history

\* set: the sync_set_status calls made; interrupts: the EngineMgr::interrupt
\* calls made; late: the solve points of the solve() calls issued with the
\* status already decided (the first three); unknown: some solve() answered
\* UNKNOWN; full_unsat: some solve() answered UNSAT with both an INIT and a
\* target constraint in force; witnesses: the witnesses created.
NoHist == [ set |-> << >>, interrupts |-> 0, late |-> << >>, unknown |-> FALSE,
            full_unsat |-> FALSE, witnesses |-> 0 ]

Solved(h, e, r, point) ==
    [ h EXCEPT
        !.late = IF f_status # REACHABILITY_UNKNOWN /\ Len(@) < 3
                 THEN Append(@, point) ELSE @,
        !.unknown = @ \/ r = STATUS_UNKNOWN,
        !.full_unsat = @ \/ ( /\ r = STATUS_UNSAT
                              /\ \E c \in InForce(e) : c.kind = "init"
                              /\ \E c \in InForce(e) : c.kind = "target" ) ]

Called(h, arg, c, from) ==
    [ h EXCEPT !.set = Append(@, [ arg |-> arg, ret |-> c.ret, from |-> from,
                                   before |-> f_status, after |-> c.status ]) ]

\* ------------------------------------------------------- backward strategy

B == "backward"

\* Mutant: INVAR is not asserted on the final frame.
BwdGoalConstraints_NoInvar(e) ==
    assert_formula(assert_formula(assert_formula(e, "target", 0), "negc", 0),
                   "globc", 0)

\* Lines 37-54: the engine, and the goal state constraints at UINT_MAX.
BwdGoalConstraints(e) ==
    assert_formula(
        assert_formula(
            assert_fsm_invar(assert_formula(e, "target", 0), 0),
            "negc", 0),
        "globc", 0)

\* Mutant: the strategy initialises the shared status when it starts.
BwdStart_Reset ==
    /\ pc[B] = "start"
    /\ eng' = [ eng EXCEPT ![B] = BwdGoalConstraints(NewEngine) ]
    /\ k' = [ k EXCEPT ![B] = 0 ]
    /\ pc' = [ pc EXCEPT ![B] = "goal_solve" ]
    /\ f_status' = REACHABILITY_UNKNOWN
    /\ UNCHANGED << fsm, cmdpc, retv, out, active, f_witness, res,
                    asg, wm, elapsed, hist >>
    /\ UNCHANGED restVars

BwdStart ==
    /\ pc[B] = "start"
    /\ eng' = [ eng EXCEPT ![B] = BwdGoalConstraints(NewEngine) ]
    /\ k' = [ k EXCEPT ![B] = 0 ]
    /\ pc' = [ pc EXCEPT ![B] = "goal_solve" ]
    /\ UNCHANGED << fsm, cmdpc, retv, out, active, f_status, f_witness, res,
                    asg, wm, elapsed, hist >>
    /\ UNCHANGED restVars

\* Mutant: everything but SAT counts as an empty goal.
BwdAfterGoal_NotSat(r) ==
    CASE r = STATUS_UNKNOWN -> "goal_unsat"
      [] r = STATUS_UNSAT   -> "goal_unsat"
      [] r = STATUS_SAT     -> "wit_assert"

\* Lines 56-76: where the goal consistency check leads.
BwdAfterGoal(r) ==
    CASE r = STATUS_UNKNOWN -> "cleanup"
      [] r = STATUS_UNSAT   -> "goal_unsat"
      [] r = STATUS_SAT     -> "wit_assert"

BwdGoalSolve ==
    /\ pc[B] = "goal_solve"
    /\ LET r == solve(fsm, eng[B])
       IN  /\ res' = [ res EXCEPT ![B] = r ]
           /\ hist' = [ hist EXCEPT ![B] = Solved(@, eng[B], r, "goal") ]
           /\ pc' = [ pc EXCEPT ![B] = BwdAfterGoal(r) ]
    /\ UNCHANGED << fsm, cmdpc, retv, out, active, f_status, f_witness, k,
                    eng, asg, wm, elapsed >>
    /\ UNCHANGED restVars

\* Lines 67-68: empty final states, the target is trivially unreachable.
BwdGoalUnsat ==
    /\ pc[B] = "goal_unsat"
    /\ LET c == sync_set_status(f_status, REACHABILITY_UNREACHABLE)
       IN  /\ f_status' = c.status
           /\ hist' = [ hist EXCEPT ![B] =
                          Called(@, REACHABILITY_UNREACHABLE, c, "goal") ]
    /\ pc' = [ pc EXCEPT ![B] = "cleanup" ]
    /\ UNCHANGED << fsm, cmdpc, retv, out, active, f_witness, k, eng, res,
                    asg, wm, elapsed >>
    /\ UNCHANGED restVars

\* Line 80: INIT at UINT_MAX - k in a fresh group.
BwdWitAssert ==
    /\ pc[B] = "wit_assert"
    /\ eng' = [ eng EXCEPT ![B] = assert_in_new_group(@, "init", 0 - k[B]) ]
    /\ pc' = [ pc EXCEPT ![B] = "wit_solve" ]
    /\ UNCHANGED << fsm, cmdpc, retv, out, active, f_status, f_witness, k,
                    res, asg, wm, elapsed, hist >>
    /\ UNCHANGED restVars

\* Mutant: an interrupted witness check is tried again.
BwdAfterWit_Retry(r) ==
    CASE r = STATUS_UNKNOWN -> "wit_solve"
      [] r = STATUS_SAT     -> "wit_sat"
      [] r = STATUS_UNSAT   -> "unroll"

\* Lines 85-91 and 127: where the witness check leads.
BwdAfterWit(r) ==
    CASE r = STATUS_UNKNOWN -> "cleanup"
      [] r = STATUS_SAT     -> "wit_sat"
      [] r = STATUS_UNSAT   -> "unroll"

BwdWitSolve ==
    /\ pc[B] = "wit_solve"
    /\ LET r == solve(fsm, eng[B])
       IN  /\ res' = [ res EXCEPT ![B] = r ]
           /\ hist' = [ hist EXCEPT ![B] = Solved(@, eng[B], r, "witness") ]
           /\ pc' = [ pc EXCEPT ![B] = BwdAfterWit(r) ]
           /\ IF r = STATUS_SAT
              THEN \E a \in SatModels(fsm, eng[B]) : asg' = [ asg EXCEPT ![B] = a ]
              ELSE asg' = asg
    /\ UNCHANGED << fsm, cmdpc, retv, out, active, f_status, f_witness, k,
                    eng, wm, elapsed >>
    /\ UNCHANGED restVars

\* Mutant: the result of sync_set_status is ignored.
BwdAfterSet_Ignore(won) == "mk_witness"

\* Line 93: only the strategy that sets REACHABLE goes on to the witness.
BwdAfterSet(won) == IF won THEN "mk_witness" ELSE "loop_check"

BwdWitSat ==
    /\ pc[B] = "wit_sat"
    /\ LET c == sync_set_status(f_status, REACHABILITY_REACHABLE)
       IN  /\ f_status' = c.status
           /\ hist' = [ hist EXCEPT ![B] =
                          Called(@, REACHABILITY_REACHABLE, c, "witness") ]
           /\ pc' = [ pc EXCEPT ![B] = BwdAfterSet(c.ret) ]
    /\ UNCHANGED << fsm, cmdpc, retv, out, active, f_witness, k, eng, res,
                    asg, wm, elapsed >>
    /\ UNCHANGED restVars

\* Lines 96-123: the witness is extracted (reversed), named reach_<N>,
\* recorded, made current and attached to the Reachability object.
BwdWitness ==
    [ id |-> << reach_trace_prfx, autoincrement(wm) >>,
      frames |-> ReachabilityCounterExample(asg[B], k[B], TRUE) ]

\* Mutant: the witness is recorded and made current but not attached to the
\* Reachability object.
BwdMkWitness_NoAttach ==
    /\ pc[B] = "mk_witness"
    /\ wm' = Registered(wm, BwdWitness)
    /\ hist' = [ hist EXCEPT ![B].witnesses = @ + 1 ]
    /\ pc' = [ pc EXCEPT ![B] = "cleanup" ]
    /\ UNCHANGED << fsm, cmdpc, retv, out, active, f_status, f_witness, k, eng,
                    res, asg, elapsed >>
    /\ UNCHANGED restVars

BwdMkWitness ==
    /\ pc[B] = "mk_witness"
    /\ wm' = Registered(wm, BwdWitness)
    /\ f_witness' = BwdWitness
    /\ hist' = [ hist EXCEPT ![B].witnesses = @ + 1 ]
    /\ pc' = [ pc EXCEPT ![B] = "cleanup" ]
    /\ UNCHANGED << fsm, cmdpc, retv, out, active, f_status, k, eng, res,
                    asg, elapsed >>
    /\ UNCHANGED restVars

\* Mutant: uniqueness is asserted against the frames from UINT_MAX - 1 on.
BwdUniqueness_FromOne(e, j, d) ==
    LET RECURSIVE loop(_, _)
        loop(en, i) ==
            IF i < d THEN loop(assert_fsm_uniqueness(en, 0 - i, 0 - d), i + 1) ELSE en
    IN  loop(e, j + 1)

\* Lines 147-148: uniqueness of frame UINT_MAX - d against every frame
\* UINT_MAX - j, j = from .. d-1.
RECURSIVE BwdUniqueness(_, _, _)
BwdUniqueness(e, j, d) ==
    IF j < d
    THEN BwdUniqueness(assert_fsm_uniqueness(e, 0 - j, 0 - d), j + 1, d)
    ELSE e

\* Mutant: INVAR is not asserted on the new frame.
BwdUnrolled_NoInvar(e, d) ==
    BwdUniqueness(
        assert_formula(assert_fsm_trans(invert_last_group(e), 0 - d), "globc", 0 - d),
        0, d)

\* Mutant: the INIT group of the failed witness check is not inverted.
BwdUnrolled_NoInvert(e, d) ==
    BwdUniqueness(
        assert_formula(assert_fsm_invar(assert_fsm_trans(e, 0 - d), 0 - d),
                       "globc", 0 - d),
        0, d)

\* Mutant: no state uniqueness is asserted.
BwdUnrolled_NoUniqueness(e, d) ==
    assert_formula(
        assert_fsm_invar(assert_fsm_trans(invert_last_group(e), 0 - d), 0 - d),
        "globc", 0 - d)

\* Lines 132-148: reject the INIT group, unroll one step backward.
BwdUnrolled(e, d) ==
    BwdUniqueness(
        assert_formula(
            assert_fsm_invar(
                assert_fsm_trans(invert_last_group(e), 0 - d),
                0 - d),
            "globc", 0 - d),
        0, d)

BwdUnroll ==
    /\ pc[B] = "unroll"
    /\ k[B] < MaxDepth
    /\ k' = [ k EXCEPT ![B] = @ + 1 ]
    /\ eng' = [ eng EXCEPT ![B] = BwdUnrolled(@, k[B] + 1) ]
    /\ pc' = [ pc EXCEPT ![B] = "proof_check" ]
    /\ UNCHANGED << fsm, cmdpc, retv, out, active, f_status, f_witness, res,
                    asg, wm, elapsed, hist >>
    /\ UNCHANGED restVars

\* Mutant: the status is not read before the proof check.
BwdProofCheck_Skip ==
    /\ pc[B] = "proof_check"
    /\ pc' = [ pc EXCEPT ![B] = "proof_solve" ]
    /\ UNCHANGED << fsm, cmdpc, retv, out, active, f_status, f_witness, k,
                    eng, res, asg, wm, elapsed, hist >>
    /\ UNCHANGED restVars

\* Lines 150-152: is this still relevant?
BwdProofCheck ==
    /\ pc[B] = "proof_check"
    /\ pc' = [ pc EXCEPT ![B] =
                 IF sync_status # REACHABILITY_UNKNOWN THEN "cleanup"
                 ELSE "proof_solve" ]
    /\ UNCHANGED << fsm, cmdpc, retv, out, active, f_status, f_witness, k,
                    eng, res, asg, wm, elapsed, hist >>
    /\ UNCHANGED restVars

\* Mutant: an interrupted proof check returns at once.
BwdAfterProof_Return(r) ==
    CASE r = STATUS_UNKNOWN -> "done"
      [] r = STATUS_SAT     -> "loop_check"
      [] r = STATUS_UNSAT   -> "proof_unsat"

\* Lines 158-177: where the unreachability-proof check leads.
BwdAfterProof(r) ==
    CASE r = STATUS_UNKNOWN -> "cleanup"
      [] r = STATUS_SAT     -> "loop_check"
      [] r = STATUS_UNSAT   -> "proof_unsat"

BwdProofSolve ==
    /\ pc[B] = "proof_solve"
    /\ LET r == solve(fsm, eng[B])
       IN  /\ res' = [ res EXCEPT ![B] = r ]
           /\ hist' = [ hist EXCEPT ![B] = Solved(@, eng[B], r, "proof") ]
           /\ pc' = [ pc EXCEPT ![B] = BwdAfterProof(r) ]
    /\ UNCHANGED << fsm, cmdpc, retv, out, active, f_status, f_witness, k,
                    eng, asg, wm, elapsed >>
    /\ UNCHANGED restVars

\* Lines 174-175: unreachability proof found.
BwdProofUnsat ==
    /\ pc[B] = "proof_unsat"
    /\ LET c == sync_set_status(f_status, REACHABILITY_UNREACHABLE)
       IN  /\ f_status' = c.status
           /\ hist' = [ hist EXCEPT ![B] =
                          Called(@, REACHABILITY_UNREACHABLE, c, "proof") ]
    /\ pc' = [ pc EXCEPT ![B] = "cleanup" ]
    /\ UNCHANGED << fsm, cmdpc, retv, out, active, f_witness, k, eng, res,
                    asg, wm, elapsed >>
    /\ UNCHANGED restVars

\* Line 184: while (sync_status() == REACHABILITY_UNKNOWN).
BwdLoopCheck ==
    /\ pc[B] = "loop_check"
    /\ pc' = [ pc EXCEPT ![B] =
                 IF sync_status = REACHABILITY_UNKNOWN THEN "wit_assert"
                 ELSE "cleanup" ]
    /\ UNCHANGED << fsm, cmdpc, retv, out, active, f_status, f_witness, k,
                    eng, res, asg, wm, elapsed, hist >>
    /\ UNCHANGED restVars

\* Lines 186-194: signal the other threads, then return.
BwdCleanup ==
    /\ pc[B] = "cleanup"
    /\ eng' = interrupt(eng)
    /\ hist' = [ hist EXCEPT ![B].interrupts = @ + 1 ]
    /\ pc' = [ pc EXCEPT ![B] = "done" ]
    /\ UNCHANGED << fsm, cmdpc, retv, out, active, f_status, f_witness, k,
                    res, asg, wm, elapsed >>
    /\ UNCHANGED restVars

\* -------------------------------------------------------- forward strategy
\* The mirror image of the backward strategy: frames 0, 1, ..., INIT asserted
\* first, the target at frame k in a fresh group.

F == "forward"

FwdInitConstraints(e) ==
    assert_formula(assert_fsm_invar(assert_formula(e, "init", 0), 0), "globc", 0)

FwdStart ==
    /\ pc[F] = "start"
    /\ eng' = [ eng EXCEPT ![F] = FwdInitConstraints(NewEngine) ]
    /\ k' = [ k EXCEPT ![F] = 0 ]
    /\ pc' = [ pc EXCEPT ![F] = "goal_solve" ]
    /\ UNCHANGED << fsm, cmdpc, retv, out, active, f_status, f_witness, res,
                    asg, wm, elapsed, hist >>
    /\ UNCHANGED restVars

FwdAfterInit(r) ==
    CASE r = STATUS_UNKNOWN -> "cleanup"
      [] r = STATUS_UNSAT   -> "goal_unsat"
      [] r = STATUS_SAT     -> "wit_assert"

FwdInitSolve ==
    /\ pc[F] = "goal_solve"
    /\ LET r == solve(fsm, eng[F])
       IN  /\ res' = [ res EXCEPT ![F] = r ]
           /\ hist' = [ hist EXCEPT ![F] = Solved(@, eng[F], r, "goal") ]
           /\ pc' = [ pc EXCEPT ![F] = FwdAfterInit(r) ]
    /\ UNCHANGED << fsm, cmdpc, retv, out, active, f_status, f_witness, k,
                    eng, asg, wm, elapsed >>
    /\ UNCHANGED restVars

FwdInitUnsat ==
    /\ pc[F] = "goal_unsat"
    /\ LET c == sync_set_status(f_status, REACHABILITY_UNREACHABLE)
       IN  /\ f_status' = c.status
           /\ hist' = [ hist EXCEPT ![F] =
                          Called(@, REACHABILITY_UNREACHABLE, c, "goal") ]
    /\ pc' = [ pc EXCEPT ![F] = "cleanup" ]
    /\ UNCHANGED << fsm, cmdpc, retv, out, active, f_witness, k, eng, res,
                    asg, wm, elapsed >>
    /\ UNCHANGED restVars

FwdWitAssert ==
    /\ pc[F] = "wit_assert"
    /\ eng' = [ eng EXCEPT ![F] = assert_in_new_group(@, "target", k[F]) ]
    /\ pc' = [ pc EXCEPT ![F] = "wit_solve" ]
    /\ UNCHANGED << fsm, cmdpc, retv, out, active, f_status, f_witness, k,
                    res, asg, wm, elapsed, hist >>
    /\ UNCHANGED restVars

FwdAfterWit(r) ==
    CASE r = STATUS_UNKNOWN -> "cleanup"
      [] r = STATUS_SAT     -> "wit_sat"
      [] r = STATUS_UNSAT   -> "unroll"

FwdWitSolve ==
    /\ pc[F] = "wit_solve"
    /\ LET r == solve(fsm, eng[F])
       IN  /\ res' = [ res EXCEPT ![F] = r ]
           /\ hist' = [ hist EXCEPT ![F] = Solved(@, eng[F], r, "witness") ]
           /\ pc' = [ pc EXCEPT ![F] = FwdAfterWit(r) ]
           /\ IF r = STATUS_SAT
              THEN \E a \in SatModels(fsm, eng[F]) : asg' = [ asg EXCEPT ![F] = a ]
              ELSE asg' = asg
    /\ UNCHANGED << fsm, cmdpc, retv, out, active, f_status, f_witness, k,
                    eng, wm, elapsed >>
    /\ UNCHANGED restVars

FwdWitSat ==
    /\ pc[F] = "wit_sat"
    /\ LET c == sync_set_status(f_status, REACHABILITY_REACHABLE)
       IN  /\ f_status' = c.status
           /\ hist' = [ hist EXCEPT ![F] =
                          Called(@, REACHABILITY_REACHABLE, c, "witness") ]
           /\ pc' = [ pc EXCEPT ![F] = IF c.ret THEN "mk_witness" ELSE "loop_check" ]
    /\ UNCHANGED << fsm, cmdpc, retv, out, active, f_witness, k, eng, res,
                    asg, wm, elapsed >>
    /\ UNCHANGED restVars

FwdWitness ==
    [ id |-> << reach_trace_prfx, autoincrement(wm) >>,
      frames |-> ReachabilityCounterExample(asg[F], k[F], FALSE) ]

FwdMkWitness ==
    /\ pc[F] = "mk_witness"
    /\ wm' = Registered(wm, FwdWitness)
    /\ f_witness' = FwdWitness
    /\ hist' = [ hist EXCEPT ![F].witnesses = @ + 1 ]
    /\ pc' = [ pc EXCEPT ![F] = "cleanup" ]
    /\ UNCHANGED << fsm, cmdpc, retv, out, active, f_status, k, eng, res,
                    asg, elapsed >>
    /\ UNCHANGED restVars

RECURSIVE FwdUniqueness(_, _, _)
FwdUniqueness(e, j, d) ==
    IF j < d
    THEN FwdUniqueness(assert_fsm_uniqueness(e, j, d), j + 1, d)
    ELSE e

FwdUnrolled(e, d) ==
    FwdUniqueness(
        assert_formula(
            assert_fsm_invar(
                assert_fsm_trans(invert_last_group(e), d - 1),
                d),
            "globc", d),
        0, d)

FwdUnroll ==
    /\ pc[F] = "unroll"
    /\ k[F] < MaxDepth
    /\ k' = [ k EXCEPT ![F] = @ + 1 ]
    /\ eng' = [ eng EXCEPT ![F] = FwdUnrolled(@, k[F] + 1) ]
    /\ pc' = [ pc EXCEPT ![F] = "proof_check" ]
    /\ UNCHANGED << fsm, cmdpc, retv, out, active, f_status, f_witness, res,
                    asg, wm, elapsed, hist >>
    /\ UNCHANGED restVars

FwdProofCheck ==
    /\ pc[F] = "proof_check"
    /\ pc' = [ pc EXCEPT ![F] =
                 IF sync_status # REACHABILITY_UNKNOWN THEN "cleanup"
                 ELSE "proof_solve" ]
    /\ UNCHANGED << fsm, cmdpc, retv, out, active, f_status, f_witness, k,
                    eng, res, asg, wm, elapsed, hist >>
    /\ UNCHANGED restVars

FwdAfterProof(r) ==
    CASE r = STATUS_UNKNOWN -> "cleanup"
      [] r = STATUS_SAT     -> "loop_check"
      [] r = STATUS_UNSAT   -> "proof_unsat"

FwdProofSolve ==
    /\ pc[F] = "proof_solve"
    /\ LET r == solve(fsm, eng[F])
       IN  /\ res' = [ res EXCEPT ![F] = r ]
           /\ hist' = [ hist EXCEPT ![F] = Solved(@, eng[F], r, "proof") ]
           /\ pc' = [ pc EXCEPT ![F] = FwdAfterProof(r) ]
    /\ UNCHANGED << fsm, cmdpc, retv, out, active, f_status, f_witness, k,
                    eng, asg, wm, elapsed >>
    /\ UNCHANGED restVars

FwdProofUnsat ==
    /\ pc[F] = "proof_unsat"
    /\ LET c == sync_set_status(f_status, REACHABILITY_UNREACHABLE)
       IN  /\ f_status' = c.status
           /\ hist' = [ hist EXCEPT ![F] =
                          Called(@, REACHABILITY_UNREACHABLE, c, "proof") ]
    /\ pc' = [ pc EXCEPT ![F] = "cleanup" ]
    /\ UNCHANGED << fsm, cmdpc, retv, out, active, f_witness, k, eng, res,
                    asg, wm, elapsed >>
    /\ UNCHANGED restVars

FwdLoopCheck ==
    /\ pc[F] = "loop_check"
    /\ pc' = [ pc EXCEPT ![F] =
                 IF sync_status = REACHABILITY_UNKNOWN THEN "wit_assert"
                 ELSE "cleanup" ]
    /\ UNCHANGED << fsm, cmdpc, retv, out, active, f_status, f_witness, k,
                    eng, res, asg, wm, elapsed, hist >>
    /\ UNCHANGED restVars

FwdCleanup ==
    /\ pc[F] = "cleanup"
    /\ eng' = interrupt(eng)
    /\ hist' = [ hist EXCEPT ![F].interrupts = @ + 1 ]
    /\ pc' = [ pc EXCEPT ![F] = "done" ]
    /\ UNCHANGED << fsm, cmdpc, retv, out, active, f_status, f_witness, k,
                    res, asg, wm, elapsed >>
    /\ UNCHANGED restVars

\* ------------------------------------------------------------ reach command

okMessage == "Ok"
errMessage == "ERROR"
wrnPrefix == "warning: "

\* The strategies a run may launch: any non-empty choice, the forward one only
\* when no backward constraint was given.
Launchable(m) ==
    { A \in SUBSET Strategies :
        /\ A # {}
        /\ (F \in A => m.negc = Range(m.n)) }

\* Mutant: the model is not looked at.
check_requirements_TargetOnly(m) == m.has_target

\* Reach::check_requirements(): a target was given and a model is loaded.
check_requirements(m) == m.has_target /\ m.modules # 0

\* Reach::operator(), lines 175-176: the requirements fail, the command warns
\* and returns the error message; no Reachability object is built.
ReachRefused ==
    /\ cmdpc = "idle"
    /\ ~ check_requirements(fsm)
    /\ out' = IF ~ fsm.has_target
              THEN << wrnPrefix, "No target given. Aborting..." >>
              ELSE << wrnPrefix, "Model not loaded." >>
    /\ retv' = errMessage
    /\ cmdpc' = "returned"
    /\ UNCHANGED << fsm, active, f_status, f_witness, pc, k, eng, res, asg,
                    wm, elapsed, hist >>
    /\ UNCHANGED restVars

\* Reach::operator(), lines 168-179: the requirements hold, the Reachability
\* object is built (status UNKNOWN, no witness) and process() launches the
\* strategy threads.
ReachBegin ==
    /\ cmdpc = "idle"
    /\ check_requirements(fsm)
    /\ \E A \in Launchable(fsm) :
         /\ active' = A
         /\ pc' = [ t \in Strategies |-> IF t \in A THEN "start" ELSE "off" ]
    /\ f_status' = REACHABILITY_UNKNOWN
    /\ f_witness' = NoWitness
    /\ cmdpc' = "running"
    /\ UNCHANGED << fsm, retv, out, k, eng, res, asg, wm, elapsed, hist >>
    /\ UNCHANGED restVars

has_witness == f_witness # NoWitness

\* Mutant: the witness is reported whenever the target is reachable, and
\* an undecided run is reported like a reachable one.
ReachMessage_Always(st) ==
    CASE st = REACHABILITY_REACHABLE ->
           << "Target is reachable", f_witness.id, Len(f_witness.frames) >>
      [] st = REACHABILITY_UNREACHABLE -> << "Target is unreachable." >>
      [] st = REACHABILITY_UNKNOWN ->
           << "Target is reachable", f_witness.id, Len(f_witness.frames) >>
      [] st = REACHABILITY_ERROR -> << "Unexpected error." >>

\* Reach::operator(), lines 181-229, once process() has joined the threads.
ReachMessage(st) ==
    CASE st = REACHABILITY_REACHABLE ->
           IF has_witness
           THEN << "Target is reachable", f_witness.id, Len(f_witness.frames) >>
           ELSE << "Target is reachable" >>
      [] st = REACHABILITY_UNREACHABLE -> << "Target is unreachable." >>
      [] st = REACHABILITY_UNKNOWN -> << "Reachability could not be decided." >>
      [] st = REACHABILITY_ERROR -> << "Unexpected error." >>

ReachEnd ==
    /\ cmdpc = "running"
    /\ \A t \in active : pc[t] = "done"
    /\ out' = ReachMessage(f_status)
    /\ retv' = IF f_status = REACHABILITY_REACHABLE THEN okMessage ELSE errMessage
    /\ cmdpc' = "returned"
    /\ UNCHANGED << fsm, active, f_status, f_witness, pc, k, eng, res, asg,
                    wm, elapsed, hist >>
    /\ UNCHANGED restVars

\* ------------------------------------------------------------ signal handler

\* Mutant: every signal interrupts.
sighandler_Always ==
    /\ cmdpc = "running"
    /\ eng' = interrupt(eng)
    /\ UNCHANGED << fsm, cmdpc, retv, out, active, f_status, f_witness, pc, k,
                    res, asg, wm, elapsed, hist >>
    /\ UNCHANGED restVars

\* sighandler(SIGTSTP): within one second of the last statistics dump the
\* engines are interrupted, otherwise statistics are dumped and `last` is set.
\* A signal outside a run finds no engine to interrupt; the signals followed
\* are those of a run.
sighandler ==
    /\ cmdpc = "running"
    /\ IF elapsed < 1
       THEN /\ eng' = interrupt(eng)
            /\ UNCHANGED elapsed
       ELSE /\ elapsed' = 0
            /\ UNCHANGED eng
    /\ UNCHANGED << fsm, cmdpc, retv, out, active, f_status, f_witness, pc, k,
                    res, asg, wm, hist >>
    /\ UNCHANGED restVars

\* A second goes by.
Tick ==
    /\ cmdpc = "running"
    /\ elapsed = 0
    /\ elapsed' = 1
    /\ UNCHANGED << fsm, cmdpc, retv, out, active, f_status, f_witness, pc, k,
                    eng, res, asg, wm, hist >>
    /\ UNCHANGED restVars

\* ------------------------------------------------------------ witness store

\* The keys (fully-qualified timed expressions) and the values of a frame.
Keys == { "x" }
Values == { "FALSE", "TRUE" }

\* TimeFrame::TimeFrame(): an empty f_map.
EmptyFrame == [ key \in {} |-> "FALSE" ]
NoFrame == << >>

\* What a call returns or how it ends.
Returned(v) == [ kind |-> "returned", v |-> v ]
Aborted == [ kind |-> "abort", v |-> "assertion failed" ]

\* TimeFrame::value(expr), the outcomes a build can produce: the value found;
\* for a missing key the assertion fails and the process aborts, or, where
\* assertions are compiled out, the end iterator is dereferenced and
\* whatever is read is returned.
value(f, key) ==
    IF key \in DOMAIN f THEN { Returned(f[key]) }
    ELSE { Aborted } \cup { Returned(v) : v \in Values }

\* TimeFrame::has_value(expr).
has_value(f, key) == key \in DOMAIN f

\* Mutant: the value is assigned, replacing the one present.
set_value_Assign(f, key, v) ==
    [ x \in DOMAIN f \cup { key } |-> IF x = key THEN v ELSE f[x] ]

\* TimeFrame::set_value(fqexpr, value): f_map.insert, which leaves an
\* element already present alone.
set_value(f, key, v) ==
    IF key \in DOMAIN f THEN f ELSE f @@ (key :> v)

\* Witness::length().
length(frames) == Len(frames)

\* Mutant: the new frame is put in front.
new_frame_Front(frames) == << EmptyFrame >> \o frames

\* Witness::new_frame(): a copy of the new TimeFrame is pushed back.
new_frame(frames) == Append(frames, EmptyFrame)

\* The TimeFrame objects at hand: the frames of the witness, by index, and the
\* one new_frame() last returned a reference to, which is the object a copy
\* of which was pushed, not the element of f_frames.
FrameRefs == (1 .. length(f_frames)) \cup (IF tf_res = NoFrame THEN {} ELSE { 0 })
Frame(r) == IF r = 0 THEN tf_res[1] ELSE f_frames[r]

WitnessNewFrame ==
    /\ length(f_frames) < MaxFrames
    /\ f_frames' = new_frame(f_frames)
    /\ tf_res' = << EmptyFrame >>
    /\ tf_ret' = [ op |-> "new_frame", fr |-> length(f_frames'), key |-> "",
                   out |-> Returned(length(f_frames') - 1) ]
    /\ UNCHANGED << reachVars, compVars, encVars, evalVars >>

TimeFrameSetValue ==
    /\ \E r \in FrameRefs, key \in Keys, v \in Values :
         /\ IF r = 0
            THEN tf_res' = << set_value(tf_res[1], key, v) >> /\ UNCHANGED f_frames
            ELSE /\ f_frames' = [ f_frames EXCEPT ![r] = set_value(@, key, v) ]
                 /\ UNCHANGED tf_res
         /\ tf_ret' = [ op |-> "set_value", fr |-> r, key |-> key,
                        out |-> Returned(v) ]
    /\ UNCHANGED << reachVars, compVars, encVars, evalVars >>

TimeFrameValue ==
    /\ \E r \in FrameRefs, key \in Keys :
         \E o \in value(Frame(r), key) :
             tf_ret' = [ op |-> "value", fr |-> r, key |-> key, out |-> o ]
    /\ UNCHANGED << f_frames, tf_res >>
    /\ UNCHANGED << reachVars, compVars, encVars, evalVars >>

TimeFrameHasValue ==
    /\ \E r \in FrameRefs, key \in Keys :
         tf_ret' = [ op |-> "has_value", fr |-> r, key |-> key,
                    out |-> Returned(has_value(Frame(r), key)) ]
    /\ UNCHANGED << f_frames, tf_res >>
    /\ UNCHANGED << reachVars, compVars, encVars, evalVars >>

\* Witness::Witness(name): no frame.
StoreStart ==
    /\ f_frames = << >>
    /\ tf_res = NoFrame
    /\ tf_ret = [ op |-> "none", fr |-> 0, key |-> "", out |-> Returned(0) ]

\* ---------------------------------------------------------------- compiler

\* An expression: its operator, the name of a leaf, its operands.  An ITE
\* c ? a : b is the node ite(cond(c, a), b).
Expr(op, name, kids) == [ op |-> op, name |-> name, kids |-> kids ]
Leaf(name) == Expr("leaf", name, << >>)

\* The symbols of context main and their types: boolean variables, finite
\* range integers (one DD), algebraic integers (Width digits) and a module
\* instance.
Symbols ==
    [ x |-> "boolean", y |-> "boolean", n |-> "monolithic", m |-> "monolithic",
      a |-> "algebraic", b |-> "algebraic", inst |-> "instance" ]

\* f_owner.type(expr, ctx).
RECURSIVE type(_)
type(e) ==
    CASE e.op = "leaf" -> Symbols[e.name]
      [] e.op = "eq" -> "boolean"
      [] e.op \in { "cond", "ite", "dot" } -> type(e.kids[2])
      [] OTHER -> type(e.kids[1])

\* tm.is_monolithic(type): a boolean or a finite one-DD type.
is_monolithic(t) == t \in { "boolean", "monolithic" }

\* type->width(): the length of the DD vector.
width(t) == IF t = "algebraic" THEN Width ELSE 1

\* A decision diagram: a bit of an encoding (encoding, digit) or an operation
\* of the DD package on other diagrams.
DD(f, enc, digit, of) == [ f |-> f, enc |-> enc, digit |-> digit, of |-> of ]

\* f_add_stack.back() and pop_back(), `cnt` times.  On a vector with fewer
\* elements both are undefined behaviour: the walk is marked, what is read is
\* garbage.
top(c, i) ==
    LET st == c.f_add_stack
    IN  IF i <= Len(st) THEN st[Len(st) + 1 - i] ELSE DD("garbage", 0, 0, << >>)

pop(c, cnt) ==
    LET st == c.f_add_stack
    IN  [ c EXCEPT !.f_add_stack =
                       IF cnt <= Len(st) THEN SubSeq(st, 1, Len(st) - cnt) ELSE << >>,
                   !.undefined = @ \/ Len(st) < cnt ]

push(c, dd) == [ c EXCEPT !.f_add_stack = Append(@, dd) ]

\* The DD vector of an encoding: one fresh bit per digit (every constructor
\* of enc.cc calls make_bit, so bits are allocated exactly when an encoding
\* is made).
dv(enc) == [ i \in 1 .. width(enc.type) |-> DD("bit", enc.id, i, << >>) ]

\* The encoding registered under a key.
find_encoding(c, key) == (CHOOSE p \in c.f_encodings : p[1] = key)[2]

\* register_encoding(key, enc).
register_encoding(c, key, enc) ==
    [ c EXCEPT !.f_encodings = @ \cup { << key, enc >> } ]

\* f_enc.make_encoding(type): a new encoding, the `made`-th of the run.
make_encoding(c, t) == [ id |-> c.made + 1, type |-> t ]

\* Mutant: an encoding is made and registered at every compilation.
encoding_for_Always(c, key, t) ==
    [ register_encoding(c, key, make_encoding(c, t)) EXCEPT !.made = @ + 1 ]

\* BECompiler::walk_leaf, the variable: if an encoding for the temporized
\* variable is available it is reused, otherwise one is made and registered.
encoding_for(c, key, t) ==
    IF \E p \in c.f_encodings : p[1] = key
    THEN c
    ELSE [ register_encoding(c, key, make_encoding(c, t)) EXCEPT !.made = @ + 1 ]

\* The memoization key of an expression: (context, expression, time).
FQExpr(c, e) ==
    << c.f_ctx_stack[Len(c.f_ctx_stack)], e, c.f_time_stack[Len(c.f_time_stack)] >>

\* The reverse of a DD vector.
Reverse(s) == [ i \in 1 .. Len(s) |-> s[Len(s) + 1 - i] ]

\* Compiler::cache_miss(expr): whether the key has no entry in the cache.
cache_miss(c, e) == FQExpr(c, e) \notin DOMAIN c.f_cache

\* Compiler::cache_miss(expr) on a hit: the cached DDs are pushed (reversed),
\* the cached microcode descriptors are appended, the cached multiplexer
\* chains are inserted (a toplevel already in f_mux_map keeps its chain) and
\* the type is pushed.
cache_hit(c, e) ==
    LET unit == c.f_cache[FQExpr(c, e)]
    IN  [ c EXCEPT !.f_add_stack = @ \o Reverse(unit.dds),
                   !.f_micro_descriptors = @ \o unit.micro_descriptors,
                   !.f_mux_map = @ @@ unit.mux_map,
                   !.f_type_stack = Append(@, type(e)),
                   !.hits = @ \cup { FQExpr(c, e) } ]

\* ----------------------------------------------------- BECompiler's walkers

\* The boolean and monolithic branches of the binary operators: both
\* operands are popped, the result is pushed.
binary_postorder(c, f) ==
    push(pop(c, 2), DD(f, 0, 0, << top(c, 2), top(c, 1) >>))

\* BECompiler::is_binary_boolean(expr), is_binary_monolithic(expr) and
\* is_binary_algebraic(expr).
is_binary_boolean(e) ==
    type(e.kids[1]) = "boolean" /\ type(e.kids[2]) = "boolean"

is_binary_monolithic(e) ==
    is_monolithic(type(e.kids[1])) /\ is_monolithic(type(e.kids[2]))

is_binary_algebraic(e) ==
    type(e.kids[1]) = "algebraic" /\ type(e.kids[2]) = "algebraic"

\* The algebraic branch of a binary operator and of ITE.  width DDs are
\* popped into rhs[width] .. rhs[1], width more into lhs[width] .. lhs[1],
\* and the operation on lhs[i] and rhs[i] is pushed for i = width down to 1.
\* rhs and lhs are arrays of `width` pointers that are never set, written
\* through and indexed at `width`: undefined behaviour.  The stack is what
\* the loops move if the writes land.  The operation is a DD operation, or
\* BWCmpl().BWXOr of IMPLIES, or the Ite of ITE on a condition that was not
\* popped.
digit_op(fa, l, r) ==
    CASE fa = "implies" -> DD("BWXOr", 0, 0, << DD("BWCmpl", 0, 0, << l >>), r >>)
      [] fa = "ite" -> DD("Ite", 0, 0, << DD("garbage", 0, 0, << >>), l, r >>)
      [] OTHER -> DD(fa, 0, 0, << l, r >>)

walk_algebraic(c, fa) ==
    LET w == Width
        rhs(i) == top(c, w + 1 - i)
        lhs(i) == top(c, 2 * w + 1 - i)
    IN  [ pop(c, 2 * w) EXCEPT
              !.f_add_stack = @ \o [ j \in 1 .. w |-> digit_op(fa, lhs(w + 1 - j), rhs(w + 1 - j)) ],
              !.undefined = TRUE ]

\* The binary operators of one shape: the boolean branch applies fb, the
\* monolithic branch fm, the algebraic branch fa digit by digit; an operand
\* family none of them accepts is unexpected where `strict`, passed over
\* otherwise.
walk_binary(c, e, fb, fm, fa, strict) ==
    IF is_binary_boolean(e) THEN binary_postorder(c, fb)
    ELSE IF is_binary_monolithic(e) THEN binary_postorder(c, fm)
    ELSE IF is_binary_algebraic(e)
    THEN walk_algebraic(c, fa)
    ELSE [ c EXCEPT !.failed = @ \/ strict ]

\* BECompiler::walk_and_postorder, walk_or_postorder (its algebraic branch
\* applies BWTimes), walk_xor_postorder, walk_xnor_postorder.
walk_and_postorder(c, e) == walk_binary(c, e, "Times", "BWTimes", "BWTimes", TRUE)
walk_or_postorder(c, e) == walk_binary(c, e, "Or", "BWOr", "BWTimes", FALSE)
walk_xor_postorder(c, e) == walk_binary(c, e, "Xor", "BWXor", "BWXor", FALSE)
walk_xnor_postorder(c, e) == walk_binary(c, e, "Xnor", "BWXnor", "BWXnor", FALSE)

\* BECompiler::walk_implies_postorder: lhs.Cmpl().Or(rhs) on booleans,
\* lhs.BWCmpl().BWXOr(rhs) on monolithic operands and on each digit.
walk_implies_postorder(c, e) ==
    IF is_binary_boolean(e)
    THEN push(pop(c, 2),
              DD("Or", 0, 0, << DD("Cmpl", 0, 0, << top(c, 2) >>), top(c, 1) >>))
    ELSE IF is_binary_monolithic(e)
    THEN push(pop(c, 2),
              DD("BWXOr", 0, 0, << DD("BWCmpl", 0, 0, << top(c, 2) >>), top(c, 1) >>))
    ELSE IF is_binary_algebraic(e)
    THEN walk_algebraic(c, "implies")
    ELSE [ c EXCEPT !.failed = TRUE ]

\* BECompiler::walk_not_postorder: nothing is done to an operand that is
\* neither boolean nor algebraic.
walk_not_postorder(c, e) ==
    IF type(e.kids[1]) = "boolean"
    THEN push(pop(c, 1), DD("Cmpl", 0, 0, << top(c, 1) >>))
    ELSE c

\* BECompiler::walk_lshift_postorder: the monolithic branch pops the two
\* operands and pushes a result; then, whatever the branch, two more DDs are
\* popped and their LShift is pushed.
walk_lshift_postorder(c, e) ==
    LET c1 == IF is_binary_monolithic(e)
              THEN binary_postorder(c, "BWCmpl.BWXOr")
              ELSE [ c EXCEPT !.failed = TRUE ]
    IN  binary_postorder(c1, "LShift")

\* BECompiler::walk_rshift_postorder.
walk_rshift_postorder(c, e) == binary_postorder(c, "RShift")

\* BECompiler::walk_ite_postorder: the boolean branch pops the two branches
\* and the condition; the monolithic (and enumerative) branch pops the two
\* branches only, the algebraic branch their digits only, and both name a
\* condition `c` they have not popped.
walk_ite_postorder(c, e) ==
    IF type(e) = "boolean"
    THEN push(pop(c, 3), DD("Ite", 0, 0, << top(c, 3), top(c, 2), top(c, 1) >>))
    ELSE IF is_monolithic(type(e))
    THEN push(pop(c, 2),
              DD("Ite", 0, 0, << DD("garbage", 0, 0, << >>), top(c, 2), top(c, 1) >>))
    ELSE IF type(e) = "algebraic"
    THEN walk_algebraic(c, "ite")
    ELSE [ c EXCEPT !.failed = TRUE ]

\* BECompiler::walk_next_preorder and walk_next_postorder.
walk_next_preorder(c) ==
    [ c EXCEPT !.f_time_stack = Append(@, 1 + @[Len(@)]) ]

walk_next_postorder(c) ==
    [ c EXCEPT !.f_time_stack = SubSeq(@, 1, Len(@) - 1) ]

\* BECompiler::walk_leaf: a cached leaf is pushed from the cache; a variable
\* gets its encoding and its DD is pushed; of an algebraic encoding dds()[i]
\* is pushed for i = width down to 1: the first read is past the end of the
\* DD vector (undefined behaviour, garbage if anything is read), digit 0 is
\* never pushed; an instance is unexpected.
walk_leaf(c, e) ==
    IF ~ cache_miss(c, e) THEN cache_hit(c, e)
    ELSE IF type(e) = "instance" THEN [ c EXCEPT !.failed = TRUE ]
    ELSE LET key == FQExpr(c, e)
             c1 == encoding_for(c, key, type(e))
             enc == find_encoding(c1, key)
         IN  IF is_monolithic(enc.type)
             THEN push(c1, dv(enc)[1])
             ELSE [ c1 EXCEPT
                        !.f_add_stack =
                            @ \o [ j \in 1 .. width(enc.type) |->
                                     IF j = 1 THEN DD("garbage", 0, 0, << >>)
                                     ELSE dv(enc)[width(enc.type) + 2 - j] ],
                        !.undefined = TRUE ]

\* The walker of BECompiler: preorder, the operands, postorder.  The
\* postorder of cond and of dot does nothing: dot's both operands stay on
\* the stack and the context is not changed.
RECURSIVE walk(_, _)
walk(c, e) ==
    IF e.op = "leaf" THEN walk_leaf(c, e)
    ELSE IF e.op # "next" /\ ~ cache_miss(c, e) THEN cache_hit(c, e)
    ELSE LET c0 == IF e.op = "next" THEN walk_next_preorder(c) ELSE c
             c1 == walk(c0, e.kids[1])
             c2 == IF Len(e.kids) = 2 THEN walk(c1, e.kids[2]) ELSE c1
         IN  CASE e.op = "next" -> walk_next_postorder(c2)
               [] e.op = "not" -> walk_not_postorder(c2, e)
               [] e.op = "and" -> walk_and_postorder(c2, e)
               [] e.op = "or" -> walk_or_postorder(c2, e)
               [] e.op = "xor" -> walk_xor_postorder(c2, e)
               [] e.op = "xnor" -> walk_xnor_postorder(c2, e)
               [] e.op = "implies" -> walk_implies_postorder(c2, e)
               [] e.op = "eq" -> binary_postorder(c2, "Equals")
               [] e.op = "lshift" -> walk_lshift_postorder(c2, e)
               [] e.op = "rshift" -> walk_rshift_postorder(c2, e)
               [] e.op = "ite" -> walk_ite_postorder(c2, e)
               [] OTHER -> c2

\* BECompiler::process(ctx, body, time): the previous results are removed,
\* the body is walked, the sanity conditions are asserted.
process(c, ctx, body, time) ==
    LET c0 == [ c EXCEPT !.f_add_stack = << >>, !.f_type_stack = << >>,
                         !.f_ctx_stack = << ctx >>, !.f_time_stack = << time >>,
                         !.failed = FALSE, !.undefined = FALSE, !.hits = {} ]
        c1 == walk(c0, body)
    IN  [ c1 EXCEPT !.failed = \/ @
                               \/ Len(c1.f_add_stack) # 1
                               \/ Len(c1.f_type_stack) # 1
                               \/ Len(c1.f_ctx_stack) # 1
                               \/ Len(c1.f_time_stack) # 1 ]

\* How a call ends: after undefined behaviour anything may have happened; a
\* failed assertion aborts the process, or, where assertions are compiled
\* out, is passed over.
Ends(c) ==
    IF c.undefined THEN { "undefined" }
    ELSE IF c.failed THEN { "abort", "returned" }
    ELSE { "returned" }

\* The steps a body is compiled at.
Steps == { 0, 1 }

\* Type-correct boolean bodies over boolean and finite-range variables.
BEBodies ==
    LET x == Leaf("x")
        y == Leaf("y")
        n == Leaf("n")
        m == Leaf("m")
    IN  { x,
          Expr("not", "", << x >>),
          Expr("and", "", << x, y >>),
          Expr("next", "", << x >>),
          Expr("and", "", << Expr("next", "", << x >>), y >>),
          Expr("eq", "", << n, m >>),
          Expr("eq", "", << Expr("lshift", "", << n, m >>), n >>),
          Expr("eq", "", << Expr("rshift", "", << n, m >>), n >>),
          Expr("ite", "", << Expr("cond", "", << x, y >>), x >>),
          Expr("eq", "", << Expr("ite", "", << Expr("cond", "", << x, n >>), m >>), n >>),
          Expr("dot", "", << Leaf("inst"), x >>) }

\* Expressions over algebraic variables and ITEs of every family, compiled
\* on their own: what their walkers leave on the stack.
BEOperands ==
    LET x == Leaf("x")
        y == Leaf("y")
        n == Leaf("n")
        m == Leaf("m")
        a == Leaf("a")
        b == Leaf("b")
    IN  { a,
          Expr("and", "", << a, b >>),
          Expr("or", "", << a, b >>),
          Expr("xor", "", << a, b >>),
          Expr("xnor", "", << a, b >>),
          Expr("implies", "", << a, b >>),
          Expr("implies", "", << x, y >>),
          Expr("ite", "", << Expr("cond", "", << x, n >>), m >>),
          Expr("ite", "", << Expr("cond", "", << y, a >>), b >>) }

\* A call of BECompiler::process by the program.
BECall(bodies) ==
    /\ call.ret \in { "none", "returned" }
    /\ call.count < MaxCalls
    /\ \E body \in bodies, time \in Steps :
         LET c == process(compiler, "main", body, time)
         IN  /\ compiler' = c
             /\ \E r \in Ends(c) :
                  call' = [ count |-> call.count + 1, body |-> body,
                            time |-> time, ret |-> r,
                            cached |-> DOMAIN compiler.f_cache ]
    /\ UNCHANGED << reachVars, storeVars, encVars, evalVars >>

BEProcess == BECall(BEBodies \cup BEOperands)

\* The bodies of BEBodies with a variable under next, or none.
BETimedBodies ==
    { e \in BEBodies :
        \/ e = Leaf("x")
        \/ e.op = "next"
        \/ e.op = "and" /\ e.kids[1].op = "next" }

\* A call of BECompiler::process on a body with next.
BETimedProcess == BECall(BETimedBodies)

\* ------------------------------------------------------ Compiler's internals

\* Compiler::push_dds(enc, type): the type is pushed, then the one DD of a
\* monolithic encoding or the reversed DDs of an algebraic one.
push_dds(c, enc) ==
    [ c EXCEPT !.f_type_stack = Append(@, enc.type),
               !.f_add_stack = @ \o (IF is_monolithic(enc.type)
                                     THEN << dv(enc)[1] >>
                                     ELSE Reverse(dv(enc))) ]

\* Compiler::register_microdescriptor(signedness, symb, width, z, x, y).
register_microdescriptor(c, symb, w, z, x, y) ==
    [ c EXCEPT !.f_micro_descriptors =
                   Append(@, [ triple |-> << FALSE, symb, w >>,
                               z |-> z, x |-> x, y |-> y ]) ]

\* Compiler::register_muxdescriptor(toplevel, width, z, cnd, aux, x, y): the
\* entry of the toplevel is created if missing, the descriptor is appended.
register_muxdescriptor(c, toplevel, w, z, cnd, aux, x, y) ==
    LET md == [ width |-> w, z |-> z, cnd |-> cnd, aux |-> aux, x |-> x, y |-> y ]
    IN  [ c EXCEPT !.f_mux_map =
                       IF toplevel \in DOMAIN @
                       THEN [ @ EXCEPT ![toplevel] = Append(@, md) ]
                       ELSE @ @@ (toplevel :> << md >>) ]

\* Compiler::make_auto_dd(): a fresh boolean encoding, registered under the
\* key of a fresh identifier __tmp<f_temp_auto_index>.
make_auto_dd(c) ==
    LET aid == Leaf("__tmp" \o ToString(c.f_temp_auto_index))
    IN  [ register_encoding(c, FQExpr(c, aid), make_encoding(c, "boolean"))
            EXCEPT !.made = @ + 1, !.f_temp_auto_index = @ + 1 ]

\* Compiler::make_auto_ddvect(dv, width): `w` calls of make_auto_dd; and the
\* vector dv they fill.
RECURSIVE make_auto_ddvect(_, _)
make_auto_ddvect(c, w) ==
    IF w = 0 THEN c ELSE make_auto_ddvect(make_auto_dd(c), w - 1)

auto_ddvect(c, w) == [ i \in 1 .. w |-> DD("bit", c.made + i, 1, << >>) ]

\* Compiler::post_node_hook(expr): the result on top of the stacks is
\* memoized under the key, together with the microcode descriptors and the
\* multiplexer chains registered so far; an entry already there is kept.
post_node_hook(c, e) ==
    LET key == FQExpr(c, e)
        w == IF c.f_type_stack = << >> THEN 0
             ELSE width(c.f_type_stack[Len(c.f_type_stack)])
        unit == [ dds |-> [ i \in 1 .. w |-> top(c, i) ],
                  micro_descriptors |-> c.f_micro_descriptors,
                  mux_map |-> c.f_mux_map ]
    IN  [ c EXCEPT !.failed = @ \/ c.f_type_stack = << >> \/ Len(c.f_add_stack) < w,
                   !.f_cache = IF key \in DOMAIN @ THEN @ ELSE @ @@ (key :> unit) ]

\* Mutant: the cache is cleared with the rest.
clear_internals_Cache(c) ==
    [ c EXCEPT !.f_add_stack = << >>, !.f_type_stack = << >>,
               !.f_ctx_stack = << >>, !.f_time_stack = << >>,
               !.f_micro_descriptors = << >>, !.f_mux_map = << >>,
               !.f_toplevel_map = << >>, !.f_cache = << >> ]

\* Compiler::clear_internals().
clear_internals(c) ==
    [ c EXCEPT !.f_add_stack = << >>, !.f_type_stack = << >>,
               !.f_ctx_stack = << >>, !.f_time_stack = << >>,
               !.f_micro_descriptors = << >>, !.f_mux_map = << >>,
               !.f_toplevel_map = << >> ]

\* The postorder of the operators of Compiler.  The operands' DDs and types
\* are popped and the result's are pushed.  Boolean operands: the operation
\* of the DD package.  Algebraic operands: fresh DDs z for the result and one
\* microcode descriptor (arithmetic: Width digits; relational: one DD); for
\* an ITE fresh DDs z and aux and one multiplexer descriptor under the
\* toplevel expression.
postorder(c, e) ==
    LET arity == IF e.op = "not" THEN 1 ELSE IF e.op = "ite" THEN 3 ELSE 2
        t == type(e.kids[2 - (IF e.op = "not" THEN 1 ELSE 0)])
        w == width(t)
        y == [ i \in 1 .. w |-> top(c, i) ]
        x == [ i \in 1 .. w |-> top(c, w + i) ]
        zw == IF e.op = "eq" THEN 1 ELSE w
        z == auto_ddvect(c, zw)
        typed(d) == [ d EXCEPT !.f_type_stack =
                          Append(SubSeq(@, 1, Len(@) - arity), type(e)),
                      !.failed = @ \/ Len(c.f_type_stack) < arity ]
    IN  CASE e.op = "cond" -> c
          [] e.op = "not" ->
               typed(push(pop(c, 1), DD("Cmpl", 0, 0, << top(c, 1) >>)))
          [] e.op = "ite" /\ t = "algebraic" ->
               LET c1 == make_auto_ddvect(pop(c, 2 * w + 1), w + 1)
                   aux == DD("bit", c.made + w + 1, 1, << >>)
                   c2 == register_muxdescriptor(c1, c.f_toplevel_map[1], w, z,
                                                top(c, 2 * w + 1), aux, x, y)
               IN  typed([ c2 EXCEPT !.f_add_stack = @ \o Reverse(z) ])
          [] e.op = "ite" ->
               typed(push(pop(c, 3),
                          DD("Ite", 0, 0, << top(c, 3), top(c, 2), top(c, 1) >>)))
          [] t = "algebraic" ->
               LET c1 == make_auto_ddvect(pop(c, 2 * w), zw)
                   c2 == register_microdescriptor(c1, e.op, w, z, x, y)
               IN  typed([ c2 EXCEPT !.f_add_stack = @ \o Reverse(z) ])
          [] OTHER ->
               typed(push(pop(c, 2), DD(e.op, 0, 0, << top(c, 2), top(c, 1) >>)))

\* The walker of Compiler: a cached expression is pushed from the cache and
\* its subtree skipped; otherwise a variable leaf gets its encoding and its
\* DDs are pushed, an operator's operands are compiled and its postorder
\* run, and the result is memoized.
RECURSIVE compile(_, _)
compile(c, e) ==
    IF ~ cache_miss(c, e) THEN cache_hit(c, e)
    ELSE IF e.op = "leaf"
    THEN LET c1 == encoding_for(c, FQExpr(c, e), type(e))
         IN  post_node_hook(push_dds(c1, find_encoding(c1, FQExpr(c, e))), e)
    ELSE LET c1 == compile(c, e.kids[1])
             c2 == IF Len(e.kids) = 2 THEN compile(c1, e.kids[2]) ELSE c1
         IN  post_node_hook(postorder(c2, e), e)

\* Compiler::process(ctx, body, time): the internals are cleared, the body
\* is compiled, the sanity conditions are asserted.
Compiler_process(c, ctx, body, time) ==
    LET c0 == [ clear_internals(c) EXCEPT
                    !.f_ctx_stack = << ctx >>, !.f_time_stack = << time >>,
                    !.f_toplevel_map = << body >>,
                    !.failed = FALSE, !.undefined = FALSE, !.hits = {} ]
        c1 == compile(c0, body)
    IN  [ c1 EXCEPT !.failed = \/ @
                               \/ Len(c1.f_add_stack) # 1
                               \/ Len(c1.f_type_stack) # 1
                               \/ Len(c1.f_ctx_stack) # 1
                               \/ Len(c1.f_time_stack) # 1 ]

\* Boolean bodies over boolean and algebraic variables.
Bodies ==
    LET x == Leaf("x")
        y == Leaf("y")
        a == Leaf("a")
        b == Leaf("b")
        E1 == Expr("eq", "", << Expr("add", "", << a, b >>), a >>)
        E2 == Expr("eq", "", << Expr("ite", "", << Expr("cond", "", << y, a >>), b >>), b >>)
        E3 == Expr("eq", "", << Expr("add", "", << a, b >>), Expr("add", "", << a, b >>) >>)
    IN  { x, E1, E2, E3,
          Expr("not", "", << x >>),
          Expr("and", "", << E1, x >>),
          Expr("and", "", << E1, E2 >>) }

\* A call of Compiler::process by the program.
CompilerProcess ==
    /\ call.ret \in { "none", "returned" }
    /\ call.count < MaxCalls
    /\ \E body \in Bodies, time \in Steps :
         LET c == Compiler_process(compiler, "main", body, time)
         IN  /\ compiler' = c
             /\ \E r \in Ends(c) :
                  call' = [ count |-> call.count + 1, body |-> body,
                            time |-> time, ret |-> r,
                            cached |-> DOMAIN compiler.f_cache ]
    /\ UNCHANGED << reachVars, storeVars, encVars, evalVars >>

\* The compiler as constructed: empty stacks, side tables, cache and
\* registry.
CompilerStart ==
    /\ compiler = [ f_add_stack |-> << >>, f_type_stack |-> << >>,
                    f_ctx_stack |-> << >>, f_time_stack |-> << >>,
                    f_micro_descriptors |-> << >>, f_mux_map |-> << >>,
                    f_toplevel_map |-> << >>, f_cache |-> << >>, f_encodings |-> {}, made |-> 0,
                    f_temp_auto_index |-> 0,
                    failed |-> FALSE, undefined |-> FALSE, hits |-> {} ]
    /\ call = [ count |-> 0, body |-> Leaf(""), time |-> 0, ret |-> "none",
                cached |-> {} ]

\* ---------------------------------------------------------------- encodings

\* NIBBLE_SIZE: the bits of a digit of an algebraic encoding.
NIBBLE_SIZE == 4

\* Largest number of literals of an enumerative type.
MaxRange == 5

\* Largest number of elements of an array.
MaxElems == 2

\* Largest number of bits an assignment sets to 1.
MaxOnes == 2

\* f_mgr.constant(value) and the last element of a vector.
constant(v) == DD("const", 0, v, << >>)
back(s) == s[Len(s)]

\* Encoding::Encoding(): no DDs, no bits.  `id` tells the encodings of a
\* run apart, it names their bits.
Encoding(kind, id) ==
    [ kind |-> kind, id |-> id, f_dv |-> << >>, f_bits |-> << >>,
      f_width |-> 0, f_temporary |-> FALSE, lits |-> 0, f_elements |-> << >>,
      f_v2e_map |-> {}, f_e2v_map |-> {}, failed |-> FALSE ]

NoEncoding == Encoding("none", 0)

\* Encoding::make_bit(): a fresh bit of the manager, kept in f_bits; the bit
\* returned is back(f_bits).
make_bit(e) ==
    [ e EXCEPT !.f_bits = Append(@, DD("bit", e.id, Len(@) + 1, << >>)) ]

\* Encoding::make_monolithic_encoding(nbits): res = make_bit(), then
\* res = res * 2 + make_bit() while i < nbits.  The encoding and the ADD.
RECURSIVE monolithic_loop(_, _, _, _)
monolithic_loop(e, r, i, nbits) ==
    IF i < nbits
    THEN LET e1 == make_bit(e)
             r1 == DD("Plus", 0, 0,
                      << DD("Times", 0, 0, << r, constant(2) >>), back(e1.f_bits) >>)
         IN  monolithic_loop(e1, r1, i + 1, nbits)
    ELSE [ enc |-> e, res |-> r ]

make_monolithic_encoding(e, nbits) ==
    LET e1 == make_bit(e)
    IN  monolithic_loop([ e1 EXCEPT !.failed = @ \/ ~ (0 < nbits) ],
                        back(e1.f_bits), 1, nbits)

\* BooleanEncoding::BooleanEncoding(): a single bit.
BooleanEncoding(id) ==
    LET e == make_bit(Encoding("boolean", id))
    IN  [ e EXCEPT !.f_dv = Append(@, back(e.f_bits)) ]

\* MonolithicEncoding::range_repr_bits(range): res is incremented and range
\* halved while range is not 0.
RECURSIVE range_loop(_, _)
range_loop(r, range) ==
    IF range # 0 THEN range_loop(r + 1, range \div 2) ELSE r

range_repr_bits(range) == range_loop(0, range)

\* EnumEncoding::EnumEncoding(lits): the bits of the range are made, the ADD
\* make_monolithic_encoding returns is dropped; f_dv is not touched.
\* The literal of rank v in the order of the literal set, and the null
\* expression a std::map entry is default-initialised to.
Literal(v) == [ lit |-> v ]
NullExpr == [ lit |-> 0 - 1 ]

\* The maps are sets of (key, value) pairs; the value a key is mapped to.
has_key(map, key) == \E p \in map : p[1] = key
at(map, key) == (CHOOSE p \in map : p[1] = key)[2]

EnumEncoding(id, lits) ==
    LET m == make_monolithic_encoding(Encoding("enum", id), range_repr_bits(lits))
    IN  [ m.enc EXCEPT !.lits = lits, !.failed = @ \/ ~ (0 < lits),
                       !.f_v2e_map = { << v, Literal(v) >> : v \in 0 .. lits - 1 },
                       !.f_e2v_map = { << Literal(v), v >> : v \in 0 .. lits - 1 } ]

\* AlgebraicEncoding::AlgebraicEncoding(width, fract, is_signed, dds): the
\* `width` DDs supplied, or `width` digits of NIBBLE_SIZE fresh bits each.
AlgebraicEncoding(id, w, temporary, dds) ==
    LET RECURSIVE fresh(_, _)
        fresh(e, i) ==
            IF i < w
            THEN LET m == make_monolithic_encoding(e, NIBBLE_SIZE)
                 IN  fresh([ m.enc EXCEPT !.f_dv = Append(@, m.res) ], i + 1)
            ELSE e
        e0 == [ Encoding("algebraic", id) EXCEPT !.f_width = w,
                                                 !.f_temporary = temporary ]
    IN  IF temporary
        THEN [ e0 EXCEPT !.f_dv = [ i \in 1 .. w |-> dds[i] ] ]
        ELSE fresh(e0, 0)

\* ArrayEncoding::ArrayEncoding(elements): the DDs of each element are
\* inserted at the end of f_dv, element after element.
ArrayEncoding(id, elements) ==
    LET RECURSIVE insert(_, _)
        insert(e, i) ==
            IF i <= Len(elements)
            THEN insert([ e EXCEPT !.f_dv = @ \o elements[i].f_dv ], i + 1)
            ELSE e
    IN  insert([ Encoding("array", id) EXCEPT !.f_elements = elements,
                                              !.failed = ~ (0 < Len(elements)) ], 1)

\* The bits an ADD depends on, and those an assignment of an encoding covers.
RECURSIVE Support(_)
Support(d) ==
    IF d.f = "bit" THEN { d }
    ELSE UNION { Support(d.of[i]) : i \in 1 .. Len(d.of) }

Bits(e) ==
    { e.f_bits[i] : i \in 1 .. Len(e.f_bits) }
      \cup UNION { Support(e.f_dv[i]) : i \in 1 .. Len(e.f_dv) }

\* The assignments of the bits of an encoding: the polarity of every bit.
Assignments(e) ==
    { [ b \in Bits(e) |-> IF b \in S THEN 1 ELSE 0 ] :
        S \in { T \in SUBSET Bits(e) : Cardinality(T) <= MaxOnes } }

\* ADD::Eval(assignment): the terminal the ADD reaches under the assignment.
RECURSIVE Eval(_, _)
Eval(d, A) ==
    CASE d.f = "bit" -> A[d]
      [] d.f = "const" -> d.digit
      [] d.f = "Plus" -> Eval(d.of[1], A) + Eval(d.of[2], A)
      [] d.f = "Times" -> Eval(d.of[1], A) * Eval(d.of[2], A)
      [] d.f = "Cmpl" -> IF Eval(d.of[1], A) = 0 THEN 1 ELSE 0
      [] d.f = "Or" ->
           IF Eval(d.of[1], A) # 0 \/ Eval(d.of[2], A) # 0 THEN 1 ELSE 0
      [] d.f = "Xnor" ->
           IF (Eval(d.of[1], A) # 0) <=> (Eval(d.of[2], A) # 0) THEN 1 ELSE 0

\* BooleanEncoding::expr(assignment).
BooleanEncoding_expr(e, A) ==
    IF Eval(e.f_dv[1], A) = 0 THEN "FALSE" ELSE "TRUE"

\* AlgebraicEncoding::expr(assignment): res += the value of f_dv[i], and
\* res *= 0x10 as long as a digit follows; the integer constant of res.
AlgebraicEncoding_expr(e, A) ==
    LET RECURSIVE loop(_, _)
        loop(r, i) ==
            LET r1 == r + Eval(e.f_dv[i + 1], A)
            IN  IF i + 1 < e.f_width THEN loop(r1 * 16, i + 1) ELSE r1
    IN  loop(0, 0)

\* EnumEncoding::expr once lindex is read: return f_v2e_map[lindex], and
\* operator[] of std::map inserts a null entry for a key that is absent.
EnumEncoding_expr(e, lindex) ==
    IF has_key(e.f_v2e_map, lindex)
    THEN [ out |-> Returned(at(e.f_v2e_map, lindex)), enc |-> e ]
    ELSE [ out |-> Returned(NullExpr),
           enc |-> [ e EXCEPT !.f_v2e_map = @ \cup { << lindex, NullExpr >> } ] ]

\* expr(assignment) of an encoding, the ways it can end: the outcome and the
\* encoding it leaves.  EnumEncoding::expr reads f_dv[0] of its empty f_dv:
\* undefined behaviour, the process may crash or go on with any lindex the
\* bits of the encoding can hold (the values below lits, and lits itself).
expr(e, A) ==
    CASE e.kind = "boolean" ->
           { [ out |-> Returned(BooleanEncoding_expr(e, A)), enc |-> e ] }
      [] e.kind = "algebraic" ->
           { [ out |-> Returned(AlgebraicEncoding_expr(e, A)), enc |-> e ] }
      [] e.kind = "enum" ->
           { [ out |-> Aborted, enc |-> e ] }
               \cup { EnumEncoding_expr(e, lindex) : lindex \in 0 .. e.lits }

\* No call of expr yet.
NoExpr == [ A |-> << >>, out |-> Aborted, called |-> FALSE ]

\* The DDs a temporary wraps are supplied by its maker.
TempDDs == { constant(1), constant(10), DD("bit", 9, 1, << >>) }

\* The program constructs an encoding of each family.
MakeBooleanEncoding ==
    /\ encoding' = BooleanEncoding(1)
    /\ expr_ret' = NoExpr
    /\ UNCHANGED << reachVars, storeVars, compVars, evalVars >>

MakeEnumEncoding ==
    /\ \E lits \in 1 .. MaxRange : encoding' = EnumEncoding(1, lits)
    /\ expr_ret' = NoExpr
    /\ UNCHANGED << reachVars, storeVars, compVars, evalVars >>

MakeAlgebraicEncoding ==
    /\ \E w \in 1 .. Width : encoding' = AlgebraicEncoding(1, w, FALSE, << >>)
    /\ expr_ret' = NoExpr
    /\ UNCHANGED << reachVars, storeVars, compVars, evalVars >>

MakeTemporaryEncoding ==
    /\ \E w \in 1 .. Width :
         \E dds \in [ 1 .. w -> TempDDs ] :
           encoding' = AlgebraicEncoding(1, w, TRUE, dds)
    /\ expr_ret' = NoExpr
    /\ UNCHANGED << reachVars, storeVars, compVars, evalVars >>

MakeArrayEncoding ==
    /\ \E n \in 1 .. MaxElems, w \in 1 .. Width :
         encoding' = ArrayEncoding(0, [ i \in 1 .. n |->
                                          AlgebraicEncoding(i, w, FALSE, << >>) ])
    /\ expr_ret' = NoExpr
    /\ UNCHANGED << reachVars, storeVars, compVars, evalVars >>

\* The program evaluates the encoding against an assignment; an array is
\* never evaluated (ArrayEncoding::expr is assert(false)).
EncodingExpr ==
    /\ encoding.kind \in { "boolean", "algebraic", "enum" }
    /\ \E A \in Assignments(encoding) :
         \E o \in expr(encoding, A) :
           /\ expr_ret' = [ A |-> A, out |-> o.out, called |-> TRUE ]
           /\ encoding' = o.enc
    /\ UNCHANGED << reachVars, storeVars, compVars, evalVars >>

\* No encoding yet, no call of expr.
EncodingStart ==
    /\ encoding = NoEncoding
    /\ expr_ret = NoExpr

\* ------------------------------------------------------------- multiplexers

\* Largest number of multiplexer descriptors registered in a compilation.
MaxChain == 3

\* The toplevel expressions multiplexers are registered under, and the DDs
\* of the conditions of the multiplexers: boolean variables.
Toplevels == { Leaf("e1"), Leaf("e2") }
CondDDs == { DD("bit", 0, 1, << >>), DD("bit", 0, 2, << >>),
             DD("bit", 0, 3, << >>) }

\* Compiler::post_process_muxes(), the descriptors of one toplevel from the
\* last to the first: act = !prev * cnd, act xnor aux is pushed, prev = act.
RECURSIVE activation_clauses(_, _, _, _)
activation_clauses(c, descriptors, j, prev) ==
    IF j = 0 THEN c
    ELSE LET act == DD("Times", 0, 0,
                       << DD("Cmpl", 0, 0, << prev >>), descriptors[j].cnd >>)
         IN  activation_clauses(
                 push(c, DD("Xnor", 0, 0, << act, descriptors[j].aux >>)),
                 descriptors, j - 1, act)

\* Compiler::post_process_muxes(): every toplevel of f_mux_map, in the order
\* the map is iterated in.
RECURSIVE post_process_muxes(_, _)
post_process_muxes(c, order) ==
    IF order = << >> THEN c
    ELSE LET descriptors == c.f_mux_map[Head(order)]
         IN  post_process_muxes(
                 activation_clauses(c, descriptors, Len(descriptors), constant(0)),
                 Tail(order))

\* The orders a map with these keys can be iterated in.
Orders(S) ==
    { s \in [ 1 .. Cardinality(S) -> S ] :
        \A i, j \in 1 .. Cardinality(S) : i # j => s[i] # s[j] }

\* The number of descriptors registered.
RECURSIVE Registered_muxes(_, _)
Registered_muxes(m, S) ==
    IF S = {} THEN 0
    ELSE LET t == CHOOSE t \in S : TRUE
         IN  Len(m[t]) + Registered_muxes(m, S \ { t })

\* A compilation begins: the internals are cleared, context and time pushed.
MuxBegin ==
    /\ call.ret \in { "none", "muxed" }
    /\ call.count < MaxCalls
    /\ compiler' = [ clear_internals(compiler) EXCEPT
                         !.f_ctx_stack = << "main" >>, !.f_time_stack = << 0 >> ]
    /\ call' = [ call EXCEPT !.count = @ + 1, !.ret = "compiling" ]
    /\ UNCHANGED << reachVars, storeVars, encVars, evalVars >>

\* The compilation of an algebraic ITE registers a multiplexer: a fresh DD
\* for aux, the descriptor under its toplevel.
MuxRegister ==
    /\ call.ret = "compiling"
    /\ Registered_muxes(compiler.f_mux_map, DOMAIN compiler.f_mux_map) < MaxChain
    /\ \E toplevel \in Toplevels, cnd \in CondDDs :
         LET c1 == make_auto_dd(compiler)
             aux == DD("bit", compiler.made + 1, 1, << >>)
         IN  compiler' = register_muxdescriptor(c1, toplevel, 1, << constant(0) >>,
                                                cnd, aux, << constant(1) >>,
                                                << constant(2) >>)
    /\ UNCHANGED << call, reachVars, storeVars, encVars, evalVars >>

\* The multiplexers are post-processed before the compiler returns.
MuxPostProcess ==
    /\ call.ret = "compiling"
    /\ \E order \in Orders(DOMAIN compiler.f_mux_map) :
         compiler' = post_process_muxes(compiler, order)
    /\ call' = [ call EXCEPT !.ret = "muxed" ]
    /\ UNCHANGED << reachVars, storeVars, encVars, evalVars >>

\* ---------------------------------------------------------------- evaluator

\* The number of frames of the witness evaluated against.
EvalFrames == 3

\* Witness::has_value(key) and value(key): the frame of the key's time holds
\* a value for every variable of the model; a time with no frame has none.
Witness_has_value(key) == key[3] \in 0 .. EvalFrames - 1

Witness_value(key) ==
    CASE key[2].name = "x" -> key[3] % 2
      [] key[2].name = "a" -> key[3] + 2
      [] key[2].name = "b" -> key[3]
      [] OTHER -> 1

\* Evaluator::walk_next_preorder and walk_next_postorder: the time after the
\* current one is pushed on f_time_stack, and popped.  (Times are step_t;
\* their sums are taken here in the integers.)
Evaluator_walk_next_preorder(ev) ==
    [ ev EXCEPT !.f_time_stack = Append(@, @[Len(@)] + 1) ]

Evaluator_walk_next_postorder(ev) ==
    [ ev EXCEPT !.failed = @ \/ Len(ev.f_time_stack) = 0,
                !.f_time_stack = SubSeq(@, 1, Len(@) - 1) ]

\* Mutant: prev pushes the time after the current one.
Evaluator_walk_prev_preorder_Forward(ev) ==
    [ ev EXCEPT !.f_time_stack = Append(@, @[Len(@)] + 1) ]

\* Evaluator::walk_prev_preorder and walk_prev_postorder.
Evaluator_walk_prev_preorder(ev) ==
    [ ev EXCEPT !.f_time_stack = Append(@, @[Len(@)] - 1) ]

Evaluator_walk_prev_postorder(ev) ==
    [ ev EXCEPT !.failed = @ \/ Len(ev.f_time_stack) = 0,
                !.f_time_stack = SubSeq(@, 1, Len(@) - 1) ]

\* POP_VALUE, `cnt` times, and PUSH_VALUE on f_expr_stack; popping an empty
\* stack is undefined behaviour.
Evaluator_pop(ev, cnt) ==
    LET st == ev.f_expr_stack
    IN  [ ev EXCEPT !.f_expr_stack =
                        IF cnt <= Len(st) THEN SubSeq(st, 1, Len(st) - cnt) ELSE << >>,
                    !.undefined = @ \/ Len(st) < cnt ]

Evaluator_top(ev, i) ==
    LET st == ev.f_expr_stack
    IN  IF i <= Len(st) THEN st[Len(st) + 1 - i] ELSE 0

\* Evaluator::walk_not_postorder and walk_add_postorder.
Evaluator_walk_not_postorder(ev) ==
    [ Evaluator_pop(ev, 1) EXCEPT
          !.f_expr_stack = Append(@, IF Evaluator_top(ev, 1) = 0 THEN 1 ELSE 0) ]

Evaluator_walk_add_postorder(ev) ==
    [ Evaluator_pop(ev, 2) EXCEPT
          !.f_expr_stack = Append(@, Evaluator_top(ev, 2) + Evaluator_top(ev, 1)) ]

\* Evaluator::walk_mul_postorder: res = lhs / rhs; an integer division by
\* zero is undefined behaviour.
Evaluator_walk_mul_postorder(ev) ==
    LET rhs == Evaluator_top(ev, 1)
        lhs == Evaluator_top(ev, 2)
    IN  IF rhs = 0
        THEN [ Evaluator_pop(ev, 2) EXCEPT !.undefined = TRUE ]
        ELSE [ Evaluator_pop(ev, 2) EXCEPT !.f_expr_stack = Append(@, lhs \div rhs) ]

\* Evaluator::walk_leaf on a variable: the key (ctx, expr, time) is made of
\* the tops of f_ctx_stack and f_time_stack and looked up in the witness; its
\* value is pushed, a key without a value is unexpected.
Evaluator_walk_leaf(ev, e) ==
    LET key == << ev.f_ctx_stack[Len(ev.f_ctx_stack)], e,
                  ev.f_time_stack[Len(ev.f_time_stack)] >>
    IN  IF Witness_has_value(key)
        THEN [ ev EXCEPT !.reads = Append(@, key),
                         !.f_expr_stack = Append(@, Witness_value(key)) ]
        ELSE [ ev EXCEPT !.reads = Append(@, key), !.failed = TRUE ]

\* The walk of an expression by the evaluator: preorder, operands, postorder
\* (f_cache is empty throughout a call).
RECURSIVE Evaluator_walk(_, _)
Evaluator_walk(ev, e) ==
    IF e.op = "leaf" THEN Evaluator_walk_leaf(ev, e)
    ELSE LET ev0 == CASE e.op = "next" -> Evaluator_walk_next_preorder(ev)
                      [] e.op = "prev" -> Evaluator_walk_prev_preorder(ev)
                      [] OTHER -> ev
             ev1 == Evaluator_walk(ev0, e.kids[1])
             ev2 == IF Len(e.kids) = 2 THEN Evaluator_walk(ev1, e.kids[2]) ELSE ev1
         IN  CASE e.op = "next" -> Evaluator_walk_next_postorder(ev2)
               [] e.op = "prev" -> Evaluator_walk_prev_postorder(ev2)
               [] e.op = "not" -> Evaluator_walk_not_postorder(ev2)
               [] e.op = "add" -> Evaluator_walk_add_postorder(ev2)
               [] e.op = "mul" -> Evaluator_walk_mul_postorder(ev2)

\* Evaluator::process(witness, ctx, body, time): the previous results are
\* removed, the body is walked, the sanity conditions are asserted.
Evaluator_process(ctx, body, time) ==
    LET ev0 == [ f_expr_stack |-> << >>, f_ctx_stack |-> << ctx >>,
                 f_time_stack |-> << time >>, reads |-> << >>,
                 failed |-> FALSE, undefined |-> FALSE,
                 body |-> body, time |-> time, ret |-> "none" ]
        ev1 == Evaluator_walk(ev0, body)
    IN  [ ev1 EXCEPT !.failed = \/ @
                                \/ Len(ev1.f_expr_stack) # 1
                                \/ Len(ev1.f_ctx_stack) # 1
                                \/ Len(ev1.f_time_stack) # 1 ]

\* Bodies with variables under next and prev, nested and beside operands
\* outside them.
EvalBodies ==
    LET x == Leaf("x")
        y == Leaf("y")
        next(e) == Expr("next", "", << e >>)
        prev(e) == Expr("prev", "", << e >>)
        add(e, f) == Expr("add", "", << e, f >>)
        mul(e, f) == Expr("mul", "", << e, f >>)
    IN  { mul(Leaf("a"), Leaf("b")), mul(Leaf("a"), Leaf("a")),
          mul(Leaf("b"), Leaf("a")), mul(y, y),
          x, next(x), prev(x), next(next(x)), next(prev(x)), prev(next(y)),
          Expr("not", "", << next(x) >>),
          add(next(x), y), add(x, prev(y)), add(prev(x), next(y)),
          next(add(prev(x), y)), prev(add(add(next(x), y), prev(x))) }

\* The evaluator as constructed: empty stacks, nothing read.
EvaluatorStart ==
    evaluator = [ f_expr_stack |-> << >>, f_ctx_stack |-> << >>,
                  f_time_stack |-> << >>, reads |-> << >>,
                  failed |-> FALSE, undefined |-> FALSE,
                  body |-> Leaf("x"), time |-> 0, ret |-> "none" ]

\* A call of Evaluator::process by the program.
EvalProcess ==
    /\ \E body \in EvalBodies, time \in Steps :
         LET ev == Evaluator_process("main", body, time)
         IN  \E r \in Ends(ev) : evaluator' = [ ev EXCEPT !.ret = r ]
    /\ UNCHANGED << reachVars, storeVars, compVars, encVars >>

\* ------------------------------------------------------------ specification

Init ==
    /\ fsm \in Models
    /\ cmdpc = "idle"
    /\ retv = "none"
    /\ out = << >>
    /\ active = {}
    /\ f_status = REACHABILITY_UNKNOWN
    /\ f_witness = NoWitness
    /\ pc = [ t \in Strategies |-> "off" ]
    /\ k = [ t \in Strategies |-> 0 ]
    /\ eng = [ t \in Strategies |-> NoEngine ]
    /\ res = [ t \in Strategies |-> NoResult ]
    /\ asg = [ t \in Strategies |-> EmptyAsg ]
    /\ wm = [ auto_index |-> 0, registry |-> {}, current |-> << >> ]
    /\ elapsed = 1
    /\ hist = [ t \in Strategies |-> NoHist ]
    /\ StoreStart
    /\ CompilerStart
    /\ EncodingStart
    /\ EvaluatorStart

Next ==
    \/ ReachRefused \/ ReachBegin \/ ReachEnd \/ sighandler \/ Tick
    \/ BwdStart \/ BwdGoalSolve \/ BwdGoalUnsat \/ BwdWitAssert \/ BwdWitSolve
    \/ BwdWitSat \/ BwdMkWitness \/ BwdUnroll \/ BwdProofCheck
    \/ BwdProofSolve \/ BwdProofUnsat \/ BwdLoopCheck \/ BwdCleanup
    \/ FwdStart \/ FwdInitSolve \/ FwdInitUnsat \/ FwdWitAssert \/ FwdWitSolve
    \/ FwdWitSat \/ FwdMkWitness \/ FwdUnroll \/ FwdProofCheck
    \/ FwdProofSolve \/ FwdProofUnsat \/ FwdLoopCheck \/ FwdCleanup

Spec == Init /\ [][Next]_vars


\* The strategy threads run and every solve() returns; the command proceeds.
\* The user need not send any signal.
Progress ==
    \/ ReachRefused \/ ReachBegin \/ ReachEnd
    \/ BwdStart \/ BwdGoalSolve \/ BwdGoalUnsat \/ BwdWitAssert \/ BwdWitSolve
    \/ BwdWitSat \/ BwdMkWitness \/ BwdUnroll \/ BwdProofCheck
    \/ BwdProofSolve \/ BwdProofUnsat \/ BwdLoopCheck \/ BwdCleanup
    \/ FwdStart \/ FwdInitSolve \/ FwdInitUnsat \/ FwdWitAssert \/ FwdWitSolve
    \/ FwdWitSat \/ FwdMkWitness \/ FwdUnroll \/ FwdProofCheck
    \/ FwdProofSolve \/ FwdProofUnsat \/ FwdLoopCheck \/ FwdCleanup

\* The models of the runs checked for termination: the two-state scenarios,
\* the guided models, the models of one state and the refused commands.
LiveModels == { Scenario1, Scenario2 } \cup Guided \cup FamilyOf(1) \cup Unready

LiveInit == Init /\ fsm \in LiveModels

FairSpec == LiveInit /\ [][Next]_vars /\ WF_vars(Progress)

\* The witness store on its own: a witness is created, frames are added and
\* their values set and read.
StoreInit == Init /\ fsm = Scenario1

StoreNext ==
    \/ WitnessNewFrame \/ TimeFrameSetValue \/ TimeFrameValue
    \/ TimeFrameHasValue

StoreSpec == StoreInit /\ [][StoreNext]_vars

\* BECompiler on its own: bodies are compiled one after the other.
BEInit == Init /\ fsm = Scenario1

BESpec == BEInit /\ [][BEProcess]_vars

\* Compiler on its own: bodies are compiled one after the other.
CompilerSpec == BEInit /\ [][CompilerProcess]_vars

\* The time of sub-expressions: bodies with next and prev are compiled and
\* evaluated.
TimeSpec == BEInit /\ [][BETimedProcess \/ EvalProcess]_vars

\* The encodings on their own: encodings are constructed and evaluated.
EncNext ==
    \/ MakeBooleanEncoding \/ MakeEnumEncoding \/ MakeAlgebraicEncoding
    \/ MakeTemporaryEncoding \/ MakeArrayEncoding \/ EncodingExpr

EncSpec == BEInit /\ [][EncNext]_vars

\* The multiplexers on their own: compilations register multiplexers and
\* post-process them.
MuxSpec == BEInit /\ [][MuxBegin \/ MuxRegister \/ MuxPostProcess]_vars

\* ------------------------------------------------------------------- claims

Calls(t) == { hist[t].set[i] : i \in 1 .. Len(hist[t].set) }
AllCalls == UNION { Calls(t) : t \in Strategies }
Finished == cmdpc = "returned"

\* C1: the shared status only ever changes from UNKNOWN to REACHABLE,
\* UNREACHABLE or ERROR; once it is not UNKNOWN it never changes again.
C1_StatusMonotone ==
    [][ /\ f_status # REACHABILITY_UNKNOWN => f_status' = f_status
        /\ f_status' \in { REACHABILITY_UNKNOWN, REACHABILITY_REACHABLE,
                           REACHABILITY_UNREACHABLE, REACHABILITY_ERROR } ]_vars

\* C1 witness: both strategies called sync_set_status, and the status is the
\* one the first of them set.
C1_Witness ==
    /\ hist[B].set # << >> /\ hist[F].set # << >>
    /\ \E c \in AllCalls : ~ c.ret /\ c.before = f_status

\* C2: sync_set_status(s) writes s and returns true only if the status is
\* UNKNOWN at the call, otherwise it changes nothing and returns false; at
\* most one call of a run returns true and the status is the value it passed.
C2_SingleWinner ==
    /\ \A c \in AllCalls :
         /\ c.ret = (c.before = REACHABILITY_UNKNOWN)
         /\ c.after = IF c.ret THEN c.arg ELSE c.before
    /\ \A t, u \in Strategies :
         \A c \in Calls(t), d \in Calls(u) : c.ret /\ d.ret => t = u /\ c = d
    /\ \A c \in AllCalls : c.ret => f_status = c.arg
    /\ (\A c \in AllCalls : ~ c.ret) => f_status = REACHABILITY_UNKNOWN

\* C2 witness: the run is over, one call won and another lost.
C2_Witness ==
    /\ Finished
    /\ \E c, d \in AllCalls : c.ret /\ ~ d.ret

\* C3: a run that ended REACHABLE created exactly one witness: it is named
\* reach_<N>, recorded in the witness manager, the manager's current witness
\* and the witness attached to the Reachability object; a strategy that lost
\* sync_set_status(REACHABLE) created none.
C3_OneWitness ==
    /\ \A t \in Strategies :
         (\E c \in Calls(t) : ~ c.ret) => hist[t].witnesses = 0
    /\ (Finished /\ f_status = REACHABILITY_REACHABLE) =>
         /\ hist[B].witnesses + hist[F].witnesses = 1
         /\ wm.registry = { f_witness }
         /\ has_witness
         /\ f_witness.id[1] = reach_trace_prfx /\ f_witness.id[2] \in Nat
         /\ wm.current = f_witness.id

\* C3 witness: the run ended REACHABLE and the backward strategy lost the race.
C3_Witness ==
    /\ Finished /\ f_status = REACHABILITY_REACHABLE
    /\ \E c \in Calls(B) : ~ c.ret /\ c.arg = REACHABILITY_REACHABLE

\* C4: the witness of a REACHABLE run is a genuine execution: frame 0
\* satisfies INIT, consecutive frames satisfy TRANS, every frame satisfies
\* INVAR, the last frame satisfies the target, and a witness found at depth k
\* has k+1 frames.
Genuine(m, w) ==
    /\ Len(w) >= 1
    /\ w[1] \in m.init
    /\ \A i \in 1 .. (Len(w) - 1) : << w[i], w[i + 1] >> \in m.trans
    /\ \A i \in 1 .. Len(w) : w[i] \in m.invar
    /\ w[Len(w)] \in m.target

RECURSIVE Closure(_, _)
Closure(m, X) ==
    LET Y == X \cup { p[2] : p \in { q \in m.trans :
                                      q[1] \in X /\ q[2] \in m.invar \cap m.globc } }
    IN  IF Y = X THEN X ELSE Closure(m, Y)

TargetReachable(m) ==
    Closure(m, m.init \cap m.invar \cap m.globc) \cap m.target \cap m.negc # {}

\* C5 as stated: whenever the backward strategy sets UNREACHABLE, its solver
\* has answered UNSAT for a formula with both INIT and the target in force.
C5_Original ==
    (\E c \in Calls(B) : c.arg = REACHABILITY_UNREACHABLE) => hist[B].full_unsat

\* The formula of the backward proof check at depth d: the goal constraints,
\* TRANS, INVAR and the global constraints on every unrolled frame, state
\* uniqueness of every pair of frames, and no INIT.
BwdProofFormula(d) ==
    { Cn("target", 0, 0), Cn("negc", 0, 0) }
    \cup { Cn("invar", 0 - j, 0 - j) : j \in 0 .. d }
    \cup { Cn("globc", 0 - j, 0 - j) : j \in 0 .. d }
    \cup { Cn("trans", 0 - j, 1 - j) : j \in 1 .. d }
    \cup { Cn("uniq", 0 - p[1], 0 - p[2]) :
             p \in { q \in (0 .. d) \X (0 .. d) : q[1] < q[2] } }

\* C5 (amended): whenever UNREACHABLE is set, the setting strategy's last
\* solve answered UNSAT; in the backward strategy that solve was either the
\* goal consistency check at k = 0, with no INIT and no TRANS ever asserted,
\* or the proof check at depth k >= 1, whose formula has no INIT in force,
\* after a witness check with INIT and the target answered UNSAT; and the
\* target is unreachable under the constraints given.
C5_Amended ==
    /\ \A t \in Strategies : \A c \in Calls(t) :
         c.arg = REACHABILITY_UNREACHABLE => res[t] = STATUS_UNSAT
    /\ \A c \in Calls(B) : c.arg = REACHABILITY_UNREACHABLE =>
         /\ c.from = "goal" =>
              /\ k[B] = 0
              /\ InForce(eng[B]) = BwdProofFormula(0)
              /\ \A i \in 1 .. Len(eng[B].log) : eng[B].log[i].kind \notin { "init", "trans" }
         /\ c.from = "proof" =>
              /\ k[B] >= 1
              /\ InForce(eng[B]) = BwdProofFormula(k[B])
              /\ hist[B].full_unsat
    /\ f_status = REACHABILITY_UNREACHABLE => ~ TargetReachable(fsm)

\* C5 witness: the backward strategy set UNREACHABLE by a proof at depth 2 or more.
C5_Witness ==
    /\ f_status = REACHABILITY_UNREACHABLE
    /\ \E c \in Calls(B) : c.ret /\ c.from = "proof"
    /\ k[B] >= 2

\* C6: in a model of N states a strategy never unrolls more than N times (it
\* is about to unroll only at a depth below N, so the depth cap of the model
\* never stops it); one that ended without an interrupted solve
\* left the status decided (REACHABLE or UNREACHABLE); the 3-bit model
\* c' = c + 2 with INIT c = 0 and target c = 3 is decided UNREACHABLE, the
\* backward strategy alone deciding it at k <= 8.
C6_Bounded ==
    /\ \A t \in active :
         /\ k[t] <= fsm.n
         /\ pc[t] = "unroll" => k[t] < fsm.n /\ k[t] < MaxDepth
         /\ (pc[t] = "done" /\ ~ hist[t].unknown) =>
              f_status \in { REACHABILITY_REACHABLE, REACHABILITY_UNREACHABLE }
    /\ (fsm = Scenario5 /\ f_status # REACHABILITY_UNKNOWN) =>
         f_status = REACHABILITY_UNREACHABLE

\* C6 witness: the backward strategy alone decided the 3-bit model, with no
\* interruption.
C6_Witness ==
    /\ fsm = Scenario5 /\ active = { B } /\ Finished
    /\ ~ hist[B].unknown
    /\ f_status = REACHABILITY_UNREACHABLE
    /\ k[B] = 4

\* C7: once a strategy has decided the status and called interrupt(), every
\* strategy of the run eventually ends.
C7_PeersEnd ==
    (f_status # REACHABILITY_UNKNOWN /\ \E t \in active : hist[t].interrupts >= 1)
        ~> (\A t \in active : pc[t] = "done")

\* C7 witness: the forward strategy has concluded and interrupted while the
\* backward strategy is in its loop, about to solve.
C7_Witness ==
    /\ f_status # REACHABILITY_UNKNOWN
    /\ pc[F] = "done" /\ hist[F].set # << >> /\ hist[F].interrupts = 1
    /\ pc[B] \in { "wit_solve", "proof_solve" } /\ k[B] >= 1

\* C8: the backward strategy calls EngineMgr::interrupt() exactly once, in its
\* cleanup step, on every path by which it returns, and not before.
C8_CleanupOnce ==
    /\ pc[B] = "done" => hist[B].interrupts = 1
    /\ pc[B] # "done" => hist[B].interrupts = 0

\* C8 witness: the backward strategy returned after an interrupted proof check.
C8_Witness ==
    /\ pc[B] = "done" /\ hist[B].interrupts = 1
    /\ res[B] = STATUS_UNKNOWN /\ k[B] >= 1
    /\ Len(eng[B].groups) = k[B]

\* C9 as stated: the backward strategy issues at most one solve() call after
\* the status has been decided.
C9_Original == Len(hist[B].late) <= 1

\* C9 (amended): the backward strategy issues at most two solve() calls after
\* the status has been decided, and two only when the status was decided
\* before its goal consistency check: that check and the first witness check
\* follow each other with no reading of the status in between.
C9_Amended ==
    /\ Len(hist[B].late) <= 2
    /\ Len(hist[B].late) = 2 => hist[B].late = << "goal", "witness" >>

\* C9 witness: the backward strategy ended after two late solve() calls.
C9_Witness ==
    /\ pc[B] = "done"
    /\ hist[B].late = << "goal", "witness" >>

\* C10: a backward strategy whose solve() answered UNKNOWN goes to its end
\* without calling sync_set_status and without creating a witness; when every
\* strategy of a run ended so, the final status is UNKNOWN and there is no
\* witness.
C10_UnknownSetsNothing ==
    /\ res[B] = STATUS_UNKNOWN =>
         /\ hist[B].set = << >>
         /\ hist[B].witnesses = 0
         /\ pc[B] \in { "cleanup", "done" }
    /\ (Finished /\ \A t \in active : res[t] = STATUS_UNKNOWN) =>
         /\ f_status = REACHABILITY_UNKNOWN
         /\ ~ has_witness
         /\ wm.registry = {}

\* C10 witness: both strategies ran and ended on an interrupted solve, the
\* backward one after unrolling.
C10_Witness ==
    /\ Finished /\ active = Strategies
    /\ \A t \in active : res[t] = STATUS_UNKNOWN
    /\ f_status = REACHABILITY_UNKNOWN
    /\ k[B] >= 1

\* The target, INVAR and the backward and global constraints have no state in
\* common at the final frame.
GoalEmpty(m) == m.target \cap m.invar \cap m.negc \cap m.globc = {}

\* C11: when the goal is empty the backward strategy never enters its loop:
\* it stays at k = 0, asserts neither INIT nor TRANS and creates no witness;
\* unless its one solve was interrupted it calls
\* sync_set_status(UNREACHABLE) once, right after that solve, and the run
\* ends UNREACHABLE; no witness exists and the status is never REACHABLE.
C11_TrivialUnreachable ==
    (GoalEmpty(fsm) /\ B \in active) =>
        /\ pc[B] \in { "start", "goal_solve", "goal_unsat", "cleanup", "done" }
        /\ k[B] = 0
        /\ hist[B].witnesses = 0
        /\ \A i \in 1 .. Len(eng[B].log) :
             eng[B].log[i].kind \notin { "init", "trans" }
        /\ eng[B].groups = << >>
        /\ f_status # REACHABILITY_REACHABLE /\ ~ has_witness
        /\ (pc[B] \in { "cleanup", "done" } /\ res[B] # STATUS_UNKNOWN) =>
             /\ res[B] = STATUS_UNSAT
             /\ Len(hist[B].set) = 1
             /\ hist[B].set[1].arg = REACHABILITY_UNREACHABLE
             /\ hist[B].set[1].from = "goal"
             /\ f_status = REACHABILITY_UNREACHABLE
        /\ (Finished /\ res[B] # STATUS_UNKNOWN) =>
             out = << "Target is unreachable." >> /\ retv = errMessage

\* C11 witness: INVAR = !x, target = x; the backward strategy alone decided
\* UNREACHABLE at k = 0.
C11_Witness ==
    /\ fsm = Scenario2 /\ active = { B } /\ Finished
    /\ f_status = REACHABILITY_UNREACHABLE
    /\ k[B] = 0 /\ hist[B].set # << >> /\ hist[B].set[1].ret

\* C12: with no target, or with no model loaded, the command launches no
\* strategy: the status is never set, no engine is made, no solve is issued,
\* no witness is registered; it returns the error Variant after a warning.
C12_Refused ==
    (~ fsm.has_target \/ fsm.modules = 0) =>
        /\ active = {}
        /\ cmdpc \in { "idle", "returned" }
        /\ f_status = REACHABILITY_UNKNOWN
        /\ \A t \in Strategies :
             /\ pc[t] = "off"
             /\ eng[t] = NoEngine
             /\ res[t] = NoResult
             /\ hist[t] = NoHist
        /\ ~ has_witness /\ wm.registry = {} /\ wm.auto_index = 0
        /\ Finished =>
             /\ retv = errMessage
             /\ Len(out) = 2 /\ out[1] = wrnPrefix
             /\ out[2] = IF ~ fsm.has_target THEN "No target given. Aborting..."
                         ELSE "Model not loaded."

\* C12 witness: the command returned with no model loaded.
C12_Witness ==
    /\ fsm.modules = 0 /\ fsm.has_target
    /\ Finished /\ retv = errMessage

\* C13: a signal within one second of the last statistics dump calls
\* EngineMgr::interrupt(), which marks every engine in existence, and leaves
\* the time of the last dump alone; a signal one second or more after it
\* (the first signal of the process included: the process starts with no
\* dump within the second) dumps statistics, interrupts nothing and restarts
\* the second.  Nothing else restarts the second.
C13_DoubleSignal ==
    [][ /\ (sighandler /\ elapsed < 1) =>
             /\ eng' = interrupt(eng)
             /\ \A t \in Strategies : eng[t].made => eng'[t].intr
             /\ elapsed' = elapsed
        /\ (sighandler /\ elapsed >= 1) =>
             /\ eng' = eng
             /\ elapsed' = 0
        /\ elapsed' < elapsed => (sighandler /\ elapsed >= 1) ]_vars

\* C13 witness: a running engine was interrupted within the second of a
\* statistics dump, and by no strategy.
C13_Witness ==
    /\ cmdpc = "running" /\ elapsed = 0
    /\ \E t \in active : eng[t].made /\ eng[t].intr /\ pc[t] # "done"
    /\ \A t \in Strategies : hist[t].interrupts = 0

\* C14 as stated: value(key) returns the value stored for key, and for a key
\* with no value it ends in a NoValue error and returns nothing.
C14_Original ==
    tf_ret.op = "value" =>
        IF has_value(Frame(tf_ret.fr), tf_ret.key)
        THEN tf_ret.out = Returned(Frame(tf_ret.fr)[tf_ret.key])
        ELSE tf_ret.out.kind = "NoValue"

\* C14 witness: value() was called for a key with no value in a frame of a
\* witness another frame of which holds a value for the key.
C14_Witness ==
    /\ tf_ret.op = "value" /\ tf_ret.fr >= 1
    /\ ~ has_value(Frame(tf_ret.fr), tf_ret.key)
    /\ \E r \in 1 .. length(f_frames) : has_value(Frame(r), tf_ret.key)

\* Every value of the frame f is still in the frame g.
Kept(f, g) == \A key \in DOMAIN f : key \in DOMAIN g /\ g[key] = f[key]

\* C15: no operation changes or removes a value once set in a frame, of the
\* witness or returned by new_frame(): the keys with a value only grow, and a
\* set_value for a key that has a value leaves that value.
C15_AppendOnly ==
    [][ /\ length(f_frames') >= length(f_frames)
        /\ \A i \in 1 .. length(f_frames) : Kept(f_frames[i], f_frames'[i])
        /\ (tf_res # NoFrame /\ length(f_frames') = length(f_frames)) =>
             (tf_res' # NoFrame /\ Kept(tf_res[1], tf_res'[1]))
        /\ \A r \in FrameRefs, key \in Keys, v \in Values :
             has_value(Frame(r), key) =>
                 set_value(Frame(r), key, v)[key] = Frame(r)[key] ]_vars

\* C15 witness: a set_value(key, v') on a frame of the witness that held
\* another value for key has left it.
C15_Witness ==
    /\ tf_ret.op = "set_value" /\ tf_ret.fr >= 1
    /\ Frame(tf_ret.fr)[tf_ret.key] # tf_ret.out.v

\* C16: a new witness has no frame; new_frame() adds exactly one frame, an
\* empty one, at index length - 1, behind the frames present, which keep
\* their place; nothing else changes the length.
C16_FramesNumbered ==
    /\ length(f_frames) = 0
    /\ [][ /\ WitnessNewFrame =>
                /\ length(f_frames') = length(f_frames) + 1
                /\ f_frames'[length(f_frames')] = EmptyFrame
                /\ tf_ret'.out = Returned(length(f_frames') - 1)
           /\ length(f_frames') # length(f_frames) => WitnessNewFrame
           /\ \A i \in 1 .. length(f_frames) :
                i <= length(f_frames') /\ Kept(f_frames[i], f_frames'[i]) ]_vars

\* C16 witness: a second frame was added to a witness whose first frame holds
\* values.
C16_Witness ==
    /\ tf_ret.op = "new_frame" /\ length(f_frames) = 2
    /\ DOMAIN f_frames[1] = Keys /\ f_frames[2] = EmptyFrame

\* C17: for every type-correct boolean body, after process(ctx, body, time)
\* has returned each of add_stack, type_stack, ctx_stack and time_stack holds
\* exactly one element, and no postorder has popped from an empty stack or
\* left operands behind.
C17_Original ==
    call.count > 0 /\ call.body \in BEBodies =>
        /\ call.ret = "returned"
        /\ ~ compiler.undefined
        /\ Len(compiler.f_add_stack) = 1
        /\ Len(compiler.f_type_stack) = 1
        /\ Len(compiler.f_ctx_stack) = 1
        /\ Len(compiler.f_time_stack) = 1

\* The body x, a boolean variable, has been compiled and process has
\* returned: its DD is on the add stack and the type stack is empty.
C17_Witness ==
    /\ call.ret = "returned"
    /\ call.body = Leaf("x")
    /\ Len(compiler.f_add_stack) = 1
    /\ Len(compiler.f_type_stack) = 0

\* The fresh DDs of a compiler: the bits of the encodings registered under
\* an identifier that is no symbol of the model.  Two results are compared up
\* to the names of the fresh DDs.
Autos(c) ==
    { p[2].id : p \in { q \in c.f_encodings : q[1][2].name \notin DOMAIN Symbols } }

RECURSIVE ShapeDD(_, _)
ShapeDD(d, A) ==
    IF d.f = "bit" /\ d.enc \in A THEN DD("auto", 0, 0, << >>)
    ELSE [ d EXCEPT !.of = [ i \in DOMAIN @ |-> ShapeDD(@[i], A) ] ]

ShapeV(v, A) == [ i \in DOMAIN v |-> ShapeDD(v[i], A) ]

\* What a compilation leaves: the DDs on the add stack, the types on the
\* type stack, the microcode descriptors and the multiplexer chains.
Result(c) ==
    LET A == Autos(c)
    IN  [ add |-> ShapeV(c.f_add_stack, A),
          type |-> c.f_type_stack,
          micro |-> [ i \in DOMAIN c.f_micro_descriptors |->
                        LET d == c.f_micro_descriptors[i]
                        IN  [ d EXCEPT !.z = ShapeV(@, A), !.x = ShapeV(@, A),
                                       !.y = ShapeV(@, A) ] ],
          mux |-> [ T \in DOMAIN c.f_mux_map |->
                      [ i \in DOMAIN c.f_mux_map[T] |->
                          LET d == c.f_mux_map[T][i]
                          IN  [ d EXCEPT !.z = ShapeV(@, A), !.x = ShapeV(@, A),
                                         !.y = ShapeV(@, A),
                                         !.cnd = ShapeDD(@, A),
                                         !.aux = ShapeDD(@, A) ] ] ] ]

\* C18: for every key (ctx, e, t) in the cache, compiling e through the cache
\* leaves the same DDs on add_stack, the same type on type_stack and the same
\* microcode descriptors and MUX map as compiling e from a cold cache.
C18_Original ==
    \A e \in Bodies, t \in Steps :
        << "main", e, t >> \in DOMAIN compiler.f_cache =>
            Result(Compiler_process(compiler, "main", e, t))
              = Result(Compiler_process([ compiler EXCEPT !.f_cache = << >> ],
                                        "main", e, t))

\* The body x has been compiled through a hit on an entry made while x was
\* compiled after an algebraic comparison: the hit has pushed the two
\* microcode descriptors of the comparison.
C18_Witness ==
    /\ call.ret = "returned"
    /\ call.body = Leaf("x")
    /\ << "main", call.body, call.time >> \in compiler.hits
    /\ Len(compiler.f_micro_descriptors) = 2

\* C19: the memoization cache is cleared at the start of each process call:
\* no entry inserted during an earlier call produces a cache hit during a
\* later one.
C19_Original == compiler.hits \cap call.cached = {}

\* C19, amended: process clears the working stacks and the side tables, not
\* the cache.  Every entry of the cache is still there, unchanged, after a
\* later call of process, and a body whose key was memoized in an earlier call
\* is compiled through a hit: just the cached DDs and descriptors are left.
C19_Amended ==
    [][ LET key == << "main", call'.body, call'.time >>
        IN  /\ \A q \in DOMAIN compiler.f_cache :
                   /\ q \in DOMAIN compiler'.f_cache
                   /\ compiler'.f_cache[q] = compiler.f_cache[q]
            /\ key \in DOMAIN compiler.f_cache =>
                   /\ key \in compiler'.hits
                   /\ compiler'.f_add_stack = Reverse(compiler.f_cache[key].dds)
                   /\ compiler'.f_micro_descriptors
                        = compiler.f_cache[key].micro_descriptors ]_vars

\* A second call of process has compiled its body through a hit on an entry
\* made during the first.
C19_Witness ==
    /\ call.count = 2
    /\ << "main", call.body, call.time >> \in call.cached
    /\ << "main", call.body, call.time >> \in compiler.hits

RECURSIVE LittleEndian(_, _, _)
LittleEndian(e, A, i) ==
    IF i > Len(e.f_dv) THEN 0
    ELSE Eval(e.f_dv[i], A) + 16 * LittleEndian(e, A, i + 1)

\* C22 (as stated): for an algebraic encoding and any assignment A, expr(A)
\* is the integer whose base-16 digits are the values of the digit DDs under
\* A with digit 0 least significant.
C22_Original ==
    (expr_ret.called /\ encoding.kind = "algebraic") =>
        expr_ret.out = Returned(LittleEndian(encoding, expr_ret.A, 1))

\* C22 witness: expr was called on a fresh encoding of two digits whose
\* values under the assignment are 1 and 2, and returned 0x12.
C22_Witness ==
    /\ expr_ret.called /\ encoding.kind = "algebraic"
    /\ ~ encoding.f_temporary /\ encoding.f_width = 2
    /\ Eval(encoding.f_dv[1], expr_ret.A) = 1
    /\ Eval(encoding.f_dv[2], expr_ret.A) = 2
    /\ expr_ret.out = Returned(18)

\* The DD vectors of the elements of an array, one after the other.
RECURSIVE Concat(_, _)
Concat(elements, i) ==
    IF i > Len(elements) THEN << >>
    ELSE elements[i].f_dv \o Concat(elements, i + 1)

\* C23 (as stated): the DD vector of an encoding has the length of its
\* family as soon as it is constructed: 1 for a boolean and for an enum, W
\* for an algebraic encoding of width W (every digit of a fresh one over 4
\* bits of its own, the DDs supplied for a temporary), and for an array the
\* vectors of its elements one after the other, element 0 first.
C23_Original ==
    LET e == encoding
    IN  /\ e.kind \in { "boolean", "enum" } => Len(e.f_dv) = 1
        /\ e.kind = "algebraic" =>
              /\ Len(e.f_dv) = e.f_width
              /\ e.f_temporary => \A i \in 1 .. e.f_width : e.f_dv[i] \in TempDDs
              /\ ~ e.f_temporary =>
                    /\ \A i \in 1 .. e.f_width :
                          Cardinality(Support(e.f_dv[i])) = NIBBLE_SIZE
                    /\ \A i, j \in 1 .. e.f_width :
                          i # j => Support(e.f_dv[i]) \cap Support(e.f_dv[j]) = {}
        /\ e.kind = "array" =>
              /\ e.f_dv = Concat(e.f_elements, 1)
              /\ Len(e.f_dv) = Len(e.f_elements) * e.f_elements[1].f_width

\* C23 witness: an enum encoding of three literals was constructed, its two
\* bits were made and its DD vector is empty.
C23_Witness ==
    /\ encoding.kind = "enum" /\ encoding.lits = 3
    /\ Len(encoding.f_bits) = 2
    /\ encoding.f_dv = << >>

\* 2^n, and the least b with 2^b >= n: ceil(log2(n)).
RECURSIVE Pow2(_)
Pow2(n) == IF n = 0 THEN 1 ELSE 2 * Pow2(n - 1)

CeilLog2(n) == CHOOSE b \in 0 .. n : Pow2(b) >= n /\ \A a \in 0 .. b - 1 : Pow2(a) < n

\* C30 (as stated): the bits allocated for the encoding of a range of n
\* values are ceil(log2(n)), for every n >= 1, powers of two included.
C30_Original ==
    encoding.kind = "enum" => Len(encoding.f_bits) = CeilLog2(encoding.lits)

\* C30 witness: the encoding of a range of four values was constructed and
\* three bits were allocated for it.
C30_Witness ==
    /\ encoding.kind = "enum" /\ encoding.lits = 4
    /\ Len(encoding.f_bits) = 3
    /\ range_repr_bits(4) = 3

\* The descriptor of a chain processed k-th (the last registered first),
\* the constraint pushed for it, and the assignments of the conditions and
\* aux variables of a chain.
Processed(ds, i) == ds[Len(ds) + 1 - i]

Emitted(d) ==
    CHOOSE e \in { compiler.f_add_stack[i] : i \in 1 .. Len(compiler.f_add_stack) } :
        e.f = "Xnor" /\ e.of[2] = d.aux

MuxAssignments(ds) ==
    [ UNION { Support(ds[i].cnd) \cup Support(ds[i].aux) : i \in 1 .. Len(ds) }
        -> { 0, 1 } ]

\* prev_k of the claim: the disjunction of the conditions of the descriptors
\* processed before the k-th; and the constraint of the k-th.
RECURSIVE Prev(_, _)
Prev(ds, i) ==
    IF i = 1 THEN constant(0)
    ELSE DD("Or", 0, 0, << Prev(ds, i - 1), Processed(ds, i - 1).cnd >>)

Claimed(ds, i) ==
    DD("Xnor", 0, 0,
       << DD("Times", 0, 0, << DD("Cmpl", 0, 0, << Prev(ds, i) >>),
                               Processed(ds, i).cnd >>),
          Processed(ds, i).aux >>)

\* C25 (as stated): for the descriptors of one toplevel, post-processing
\* emits one constraint per descriptor, (!prev_k & cnd_k) <-> aux_k, where
\* prev_k is the disjunction of the conditions of all the descriptors
\* processed before the k-th.
C25_Original ==
    call.ret = "muxed" =>
        /\ Len(compiler.f_add_stack) =
              Registered_muxes(compiler.f_mux_map, DOMAIN compiler.f_mux_map)
        /\ \A t \in DOMAIN compiler.f_mux_map :
              LET ds == compiler.f_mux_map[t]
              IN  \A i \in 1 .. Len(ds) : \A A \in MuxAssignments(ds) :
                    Eval(Emitted(Processed(ds, i)), A) = Eval(Claimed(ds, i), A)

\* C25 witness: a chain of three descriptors with three conditions was
\* post-processed; the constraint of the third allows its aux while the
\* first condition holds.
C25_Witness ==
    /\ call.ret = "muxed"
    /\ \E t \in DOMAIN compiler.f_mux_map :
         LET ds == compiler.f_mux_map[t]
         IN  /\ Len(ds) = 3
             /\ Cardinality({ ds[i].cnd : i \in 1 .. 3 }) = 3
             /\ \E A \in MuxAssignments(ds) :
                   /\ Eval(Processed(ds, 1).cnd, A) = 1
                   /\ Eval(Processed(ds, 3).aux, A) = 1
                   /\ Eval(Emitted(Processed(ds, 3)), A) = 1
                   /\ Eval(Claimed(ds, 3), A) = 0

\* The assignments that satisfy every constraint emitted for a chain.
Witnesses(ds) ==
    { A \in MuxAssignments(ds) :
        \A i \in 1 .. Len(ds) : Eval(Emitted(ds[i]), A) = 1 }

\* C21 (as stated): in every assignment satisfying the constraints emitted
\* for the multiplexer chains, exactly one descriptor of each chain has its
\* aux set, whatever the length of the chain.
C21_Original ==
    call.ret = "muxed" =>
        \A t \in DOMAIN compiler.f_mux_map :
          LET ds == compiler.f_mux_map[t]
          IN  \A A \in Witnesses(ds) :
                Cardinality({ i \in 1 .. Len(ds) : Eval(ds[i].aux, A) = 1 }) = 1

\* C21 witness: a chain of three descriptors was post-processed and an
\* assignment satisfies its three constraints with two aux variables set.
C21_Witness ==
    /\ call.ret = "muxed"
    /\ \E t \in DOMAIN compiler.f_mux_map :
         LET ds == compiler.f_mux_map[t]
         IN  /\ Len(ds) = 3
             /\ \E A \in Witnesses(ds) :
                   Cardinality({ i \in 1 .. 3 : Eval(ds[i].aux, A) = 1 }) = 2

\* What compiling the sub-expression e at the call's context and time pushes
\* in the state reached: the DDs the postorder of its parent finds on
\* add_stack, bottom first.
Operand(e) ==
    walk([ compiler EXCEPT !.f_add_stack = << >>, !.f_type_stack = << >>,
                           !.f_ctx_stack = << "main" >>,
                           !.f_time_stack = << call.time >> ], e).f_add_stack

\* C27: after an algebraic variable leaf of width W has been compiled,
\* add_stack holds the digits dv[0..W-1] of its encoding, each once, in
\* reverse order (dv[0] on top), and no index outside 0..W-1 has been read.
C27_Original ==
    call.ret # "none" /\ call.body = Leaf("a") =>
        LET enc == find_encoding(compiler, << "main", call.body, call.time >>)
        IN  /\ ~ compiler.undefined
            /\ compiler.f_add_stack = Reverse(dv(enc))

\* The algebraic variable a has been compiled by BECompiler: the DD on top of
\* add_stack is the second digit of its encoding, below it lies what was read
\* past the end of the DD vector.
C27_Witness ==
    /\ call.ret = "undefined" /\ call.body = Leaf("a")
    /\ Len(compiler.f_add_stack) = Width
    /\ top(compiler, 1) =
           dv(find_encoding(compiler, << "main", call.body, call.time >>))[2]
    /\ compiler.f_add_stack[1].f = "garbage"

\* The digit-level operation of a bitwise operator (for IMPLIES the
\* operation the monolithic branch applies).
Bitwise(op, l, r) ==
    CASE op = "and" -> DD("BWTimes", 0, 0, << l, r >>)
      [] op = "or" -> DD("BWOr", 0, 0, << l, r >>)
      [] op = "xor" -> DD("BWXor", 0, 0, << l, r >>)
      [] op = "xnor" -> DD("BWXnor", 0, 0, << l, r >>)
      [] op = "implies" ->
             DD("BWXOr", 0, 0, << DD("BWCmpl", 0, 0, << l >>), r >>)

\* C28: after AND, OR, XOR, XNOR or IMPLIES on two algebraic operands of
\* width W has been compiled, add_stack holds W DDs, the i-th being the
\* operation applied to the i-th DD of the left operand and the i-th DD of
\* the right operand: the operands' digit order is kept.
C28_Original ==
    /\ call.ret # "none"
    /\ call.body.op \in { "and", "or", "xor", "xnor", "implies" }
    /\ is_binary_algebraic(call.body)
    => LET l == Operand(call.body.kids[1])
           r == Operand(call.body.kids[2])
       IN  compiler.f_add_stack =
               [ i \in 1 .. Width |-> Bitwise(call.body.op, l[i], r[i]) ]

\* a | b on algebraic a and b has been compiled: the DD at the bottom of
\* add_stack is the BWTimes of the DDs on top of the two operands.
C28_Witness ==
    /\ call.body = Expr("or", "", << Leaf("a"), Leaf("b") >>)
    /\ call.ret = "undefined"
    /\ Len(compiler.f_add_stack) = Width
    /\ LET l == Operand(Leaf("a"))
           r == Operand(Leaf("b"))
       IN  compiler.f_add_stack[1] = DD("BWTimes", 0, 0, << l[Width], r[Width] >>)

\* C29: after `c ? a : b` has been compiled, in every operand family,
\* add_stack holds Ite(c, a, b) only (one DD per digit), where c is the DD
\* compiled for the condition: the condition is no longer on the stack.
C29_Original ==
    call.ret # "none" /\ call.body.op = "ite" =>
        LET cnd == Operand(call.body.kids[1].kids[1])
            lhs == Operand(call.body.kids[1].kids[2])
            rhs == Operand(call.body.kids[2])
        IN  compiler.f_add_stack =
                [ i \in 1 .. Len(lhs) |->
                    DD("Ite", 0, 0, << cnd[1], lhs[i], rhs[i] >>) ]

\* x ? n : m on finite-range n and m has been compiled: the DD of x is still
\* on add_stack, below an Ite whose condition is not that DD.
C29_Witness ==
    /\ call.body = Expr("ite", "", << Expr("cond", "", << Leaf("x"), Leaf("n") >>),
                                      Leaf("m") >>)
    /\ call.ret # "none"
    /\ Len(compiler.f_add_stack) = 2
    /\ compiler.f_add_stack[1] = Operand(Leaf("x"))[1]
    /\ compiler.f_add_stack[2].of[1] # Operand(Leaf("x"))[1]

\* The leaves of a body processed at time t, left to right, each with the
\* time t + i - j where i and j count the next and the prev operators it is
\* nested under.
RECURSIVE TimedLeaves(_, _)
TimedLeaves(e, t) ==
    CASE e.op = "leaf" -> << << "main", e, t >> >>
      [] e.op = "next" -> TimedLeaves(e.kids[1], t + 1)
      [] e.op = "prev" -> TimedLeaves(e.kids[1], t - 1)
      [] Len(e.kids) = 2 -> TimedLeaves(e.kids[1], t) \o TimedLeaves(e.kids[2], t)
      [] OTHER -> TimedLeaves(e.kids[1], t)

EncodingKeys(c) == { p[1] : p \in c.f_encodings }

C31_Original ==
    evaluator.ret # "none" /\ evaluator.body.op = "mul" =>
        LET lhs == Witness_value(<< "main", evaluator.body.kids[1], evaluator.time >>)
            rhs == Witness_value(<< "main", evaluator.body.kids[2], evaluator.time >>)
        IN  /\ ~ evaluator.undefined
            /\ evaluator.f_expr_stack = << lhs * rhs >>

\* a * a has been evaluated at time 0, where a is 2: the value returned is 1,
\* the quotient.
C31_Witness ==
    /\ evaluator.ret = "returned" /\ evaluator.time = 0
    /\ evaluator.body = Expr("mul", "", << Leaf("a"), Leaf("a") >>)
    /\ evaluator.f_expr_stack = << 1 >>

\* The constraints of a kind a solve of the backward engine enforces, and the
\* positions in the engine's log of the assertions of a constraint.
BwdInForce(kind) == { c \in InForce(eng[B]) : c.kind = kind }

BwdIssued(c) == { i \in 1 .. Len(eng[B].log) : eng[B].log[i] = c }

\* C32: in the backward strategy the target is asserted at UINT_MAX before
\* any INIT; at the witness-check solve of depth k the only INIT in force is
\* INIT at UINT_MAX - k, held by the group issued last; at the
\* unreachability-proof solve no INIT is in force: the groups of the frames
\* tried before have all been inverted.
C32_InitOnlyAtFrontier ==
    /\ eng[B].made =>
           /\ eng[B].log[1] = Cn("target", 0, 0)
           /\ \A i \in 1 .. Len(eng[B].log) : eng[B].log[i].kind = "init" => 1 < i
    /\ pc[B] = "wit_solve" =>
           /\ BwdInForce("init") = { Cn("init", 0 - k[B], 0 - k[B]) }
           /\ Len(eng[B].groups) = k[B] + 1
           /\ eng[B].groups[k[B] + 1] = [ c |-> Cn("init", 0 - k[B], 0 - k[B]), on |-> TRUE ]
           /\ \A c \in eng[B].cs : c.kind # "init"
    /\ pc[B] = "proof_solve" => BwdInForce("init") = {}

\* The backward strategy is at the unreachability-proof solve of depth 2,
\* having tried INIT at UINT_MAX, UINT_MAX - 1 in two groups, both inverted.
C32_Witness ==
    /\ pc[B] = "proof_solve" /\ k[B] = 2
    /\ Len(eng[B].groups) = 2
    /\ \A i \in 1 .. 2 : ~ eng[B].groups[i].on /\ eng[B].groups[i].c.kind = "init"

\* C33: in the backward strategy, at the unreachability-proof solve of depth
\* k, assert_fsm_uniqueness(UINT_MAX - j, UINT_MAX - i) has been issued
\* exactly once for every 0 <= j < i <= k, and for no other pair.
C33_AllPairsOnce ==
    pc[B] = "proof_solve" =>
        /\ \A i \in 1 .. k[B] : \A j \in 0 .. (i - 1) :
               Cardinality(BwdIssued(Cn("uniq", 0 - j, 0 - i))) = 1
        /\ \A n \in 1 .. Len(eng[B].log) :
               eng[B].log[n].kind = "uniq" =>
                   \E i \in 1 .. k[B] : \E j \in 0 .. (i - 1) :
                       eng[B].log[n] = Cn("uniq", 0 - j, 0 - i)

\* The backward strategy is at the unreachability-proof solve of depth 2 with
\* the three pairs of the frames UINT_MAX, UINT_MAX - 1, UINT_MAX - 2 asserted
\* distinct.
C33_Witness ==
    /\ pc[B] = "proof_solve" /\ k[B] = 2
    /\ { Cn("uniq", 0, -1), Cn("uniq", 0, -2), Cn("uniq", -1, -2) } \subseteq eng[B].cs

\* C34: when the backward strategy solves at depth k, the negative-time
\* constraints have been asserted at every unrolled frame UINT_MAX - j,
\* 0 <= j <= k, as the global constraints have.
C34_Original ==
    pc[B] \in { "goal_solve", "wit_solve", "proof_solve" } =>
        \A j \in 0 .. k[B] :
            /\ Cn("globc", 0 - j, 0 - j) \in InForce(eng[B])
            /\ Cn("negc", 0 - j, 0 - j) \in InForce(eng[B])

\* The backward strategy is at the proof solve of depth 1 of a model with a
\* backward constraint: the global constraint is asserted at UINT_MAX - 1,
\* the backward constraint at UINT_MAX only.
C34_Witness ==
    /\ pc[B] = "proof_solve" /\ k[B] = 1
    /\ fsm.negc # Range(fsm.n)
    /\ Cn("globc", -1, -1) \in eng[B].cs
    /\ Cn("negc", 0, 0) \in eng[B].cs
    /\ Cn("negc", -1, -1) \notin eng[B].cs

\* C35: whenever the status is REACHABLE a witness has been set on the
\* Reachability object.
C35_Original == f_status = REACHABILITY_REACHABLE => has_witness

\* C35, amended: while the status is REACHABLE and no witness is set, the
\* one strategy that set REACHABLE is between its sync_set_status and its
\* set_witness; once that strategy has gone on, and so whenever the command
\* reads the status, REACHABLE comes with a witness.
C35_Amended ==
    f_status = REACHABILITY_REACHABLE /\ ~ has_witness =>
        /\ cmdpc = "running"
        /\ Cardinality({ t \in active : pc[t] = "mk_witness" }) = 1

\* The backward strategy has set REACHABLE and is about to extract the
\* witness: has_witness() is still false.
C35_Witness ==
    /\ f_status = REACHABILITY_REACHABLE /\ ~ has_witness
    /\ pc[B] = "mk_witness"

\* C40: when the reach command has returned after a run, it returned the ok
\* Variant exactly if the status is REACHABLE (the error Variant for
\* UNREACHABLE, UNKNOWN and ERROR), and it has printed a witness id and a
\* step count only if a witness exists, and then those of the witness.
C40_OkIffReachable ==
    cmdpc = "returned" /\ active # {} =>
        /\ retv \in { okMessage, errMessage }
        /\ retv = okMessage <=> f_status = REACHABILITY_REACHABLE
        /\ Len(out) = 3 =>
               /\ has_witness
               /\ out[2] = f_witness.id /\ out[3] = Len(f_witness.frames)
        /\ f_status = REACHABILITY_REACHABLE <=> out[1] = "Target is reachable"

\* The command has returned ok after a run that found the target reachable
\* and has printed the witness and its number of steps.
C40_Witness ==
    /\ cmdpc = "returned" /\ active # {}
    /\ retv = okMessage /\ f_status = REACHABILITY_REACHABLE
    /\ out = << "Target is reachable", f_witness.id, Len(f_witness.frames) >>

\* C37: a value written with set_value through the TimeFrame new_frame()
\* returned is readable from the frame the witness stores at that index.
C37_Original ==
    tf_ret.op = "set_value" /\ tf_ret.fr = 0 =>
        /\ has_value(f_frames[length(f_frames)], tf_ret.key)
        /\ f_frames[length(f_frames)][tf_ret.key] = tf_res[1][tf_ret.key]

\* A value was written through the frame new_frame() returned: that frame
\* holds it, the last frame of the witness is empty.
C37_Witness ==
    /\ tf_ret.op = "set_value" /\ tf_ret.fr = 0
    /\ has_value(tf_res[1], tf_ret.key)
    /\ f_frames[length(f_frames)] = EmptyFrame

\* The literal set an enum encoding was constructed over.
LiteralsOf(e) == { Literal(v) : v \in 0 .. e.lits - 1 }

\* The two maps are mutually inverse bijections between 0 .. |L| - 1 and L.
InverseBijections(e) ==
    /\ { p[1] : p \in e.f_v2e_map } = 0 .. e.lits - 1
    /\ { p[2] : p \in e.f_v2e_map } = LiteralsOf(e)
    /\ e.f_e2v_map = { << p[2], p[1] >> : p \in e.f_v2e_map }
    /\ Cardinality(e.f_v2e_map) = e.lits

\* C39 (as stated): for an enum encoding over the literal set L and every
\* assignment of its bits, expr(assignment) returns a member of L, never an
\* absent or null literal, and the value-to-literal and literal-to-value
\* maps are mutually inverse bijections between 0 .. |L| - 1 and L.
C39_Original ==
    encoding.kind = "enum" =>
        /\ InverseBijections(encoding)
        /\ expr_ret.called => expr_ret.out \in { Returned(l) : l \in LiteralsOf(encoding) }

\* C39 witness: expr was called on an enum encoding of three literals, the
\* index read was 3, which the two bits of the encoding can hold; the null
\* expression came back and the value-to-literal map has a fourth entry.
C39_Witness ==
    /\ encoding.kind = "enum" /\ encoding.lits = 3
    /\ Len(encoding.f_bits) = 2
    /\ expr_ret.called /\ expr_ret.out = Returned(NullExpr)
    /\ << 3, NullExpr >> \in encoding.f_v2e_map
    /\ Cardinality(encoding.f_e2v_map) = 3

\* The sub-expressions of an expression, the number of occurrences of s in
\* e, and the operators of e.
RECURSIVE SubExprs(_)
SubExprs(e) ==
    { e } \cup (IF e.op = "leaf" THEN {}
                ELSE UNION { SubExprs(e.kids[i]) : i \in 1 .. Len(e.kids) })

RECURSIVE Occurrences(_, _)
Occurrences(e, s) ==
    LET RECURSIVE sum(_)
        sum(i) == IF i > Len(e.kids) THEN 0
                  ELSE Occurrences(e.kids[i], s) + sum(i + 1)
    IN  IF e = s THEN 1 ELSE IF e.op = "leaf" THEN 0 ELSE sum(1)

OpsOf(e) == { s.op : s \in SubExprs(e) }

\* C38 (as stated): after compiling a body in which the same sub-expression
\* occurs more than once, the later occurrences being cache hits, each
\* microcode descriptor emitted for it appears exactly once in the
\* compiler's descriptor list; and the cache entry of a key K holds only
\* descriptors emitted while compiling K's own subtree, none of an earlier
\* sibling.
C38_Original ==
    LET ds == compiler.f_micro_descriptors
    IN  call.ret = "returned" =>
          /\ (\E s \in SubExprs(call.body) : Occurrences(call.body, s) > 1) =>
                \A i, j \in 1 .. Len(ds) : ds[i] = ds[j] => i = j
          /\ \A key \in DOMAIN compiler.f_cache :
                \A i \in 1 .. Len(compiler.f_cache[key].micro_descriptors) :
                  compiler.f_cache[key].micro_descriptors[i].triple[2] \in OpsOf(key[2])

\* C38 witness: the first call of process has compiled a + b = a + b; the
\* second a + b was a hit on the entry made for the first, and the
\* descriptor of the addition is in the list twice, before the one of the
\* comparison.
C38_Witness ==
    LET ds == compiler.f_micro_descriptors
        sum == Expr("add", "", << Leaf("a"), Leaf("b") >>)
    IN  /\ call.ret = "returned" /\ call.count = 1
        /\ call.body = Expr("eq", "", << sum, sum >>)
        /\ << "main", sum, call.time >> \in compiler.hits
        /\ Len(ds) = 3
        /\ ds[1] = ds[2] /\ ds[1].triple[2] = "add" /\ ds[3].triple[2] = "eq"

====
